---- MODULE Spec2Model ----
(***************************************************************************)
(* A model of the agentstate storage engine (crates/agentstate-storage):   *)
(* the in-memory object core with its commit log, watch fan-out and tag    *)
(* index, the lease table, the binary write-ahead log with replay, and the *)
(* persistent store built from them.                                       *)
(*                                                                         *)
(* Specifications:                                                         *)
(*   Spec        InMemoryStore from new(): put, delete, subscribe,         *)
(*               try_next                                                  *)
(*   SpecLease   InMemoryStore from new(): put, delete, the lease          *)
(*               operations, validate_fence and the passage of time        *)
(*   SpecIndex   put, delete, query and sweep_expired step by step on      *)
(*               tagged objects                                            *)
(*   SpecGet     put, delete and get with the result of each call          *)
(*   SpecDelete  put, delete, subscribe and try_next with the result of    *)
(*               each call                                                 *)
(*   SpecSweep   put, a subscriber and sweep_expired step by step          *)
(*   SpecWal     WalWriter from open() on an empty data_dir: append, the   *)
(*               fsync worker step by step, write and fsync errors, a kill *)
(*               of the process, damage to the files, replay               *)
(*   SpecPersist PersistentStore: put, delete, snapshot, admin_trim_wal,   *)
(*               kills and restarts                                        *)
(*   SpecTrim    PersistentStore: put, snapshot, admin_trim_wal, kills and *)
(*               restarts                                                  *)
(*   SpecRestore PersistentStore: put, delete, snapshot and a kill, then   *)
(*               the restore tool                                          *)
(*   SpecWrite   PersistentStore: put and delete over a log with write and *)
(*               fsync errors                                              *)
(*   SpecDurable PersistentStore: leases and idempotency records, kills    *)
(*               and restarts                                              *)
(*   SpecIdem    idempotency_commit and idempotency_lookup on an           *)
(*               InMemoryStore and on a PersistentStore                    *)
(*   SpecDrop    put, delete, subscribe, try_next and the drop of a        *)
(*               MemWatch                                                  *)
(*   SpecRenew   lease_acquire, lease_renew and lease_release with the     *)
(*               arguments and the result of each call                     *)
(*   SpecPutLive the steps of SpecWrite under weak fairness of the worker  *)
(*               and of the return of a call                               *)
(*   SpecHandler put_objects of the server over an InMemoryStore, two      *)
(*               requests at a time, lease_acquire and the clock           *)
(*   SpecDrain   put, delete, subscribe and try_next with a subscriber     *)
(*               that reads every event before the next write              *)
(*   SpecWatch   the watch streams of the gRPC server and a consumer that  *)
(*               subscribes again after an overflow, under weak fairness   *)
(***************************************************************************)
EXTENDS Integers, Sequences, FiniteSets, TLC

(***************************************************************************)
(* Bounds of the model and the inputs the operations draw from.            *)
(***************************************************************************)
\* cap on the number of counter bumps (commits and lease tokens) over all namespaces
MaxCommits == 3
\* cap on the number of subscribe calls
MaxHandles == 1
\* cap on the clock (seconds since the store was built)
MaxTime == 2
\* largest ttl_secs a lease request carries
MaxTtl == 1
\* serde_json length of every Object of the model, in bytes
PutJsonLen == 100
\* cap on the number of WalWriter::append calls
MaxAppends == 2
\* cap on the number of write_all / sync_data calls that return an error
MaxIoFailures == 1
\* seg_size: a segment is rotated once it holds this many cells
SegSize == 11
\* WAL_BATCH_MAX_BYTES, in cells
BatchMax == 24
\* highest bit of a cell that the damage action flips
MaxFlipBit == 1

NS == {"a", "b"}
IDS == {"x", "y"}
KEYS == {"r"}
OWNERS == {"o1", "o2"}
IDEM_KEYS == {"q"}
HASHES == {"h1", "h2"}
RESPONSES == {1, 2}

\* Option<T>: None is the empty sequence, Some(x) the one-element sequence
None == << >>
Some(x) == << x >>

(***************************************************************************)
(* Configuration read from the environment (mem.rs), with small values.    *)
(***************************************************************************)
WATCH_BUFFER_EVENTS == 2
WATCH_BUFFER_BYTES == 180
DELETE_EVENT_BYTES == 64
WATCH_RETRY_MIN_MS == 250
WATCH_RETRY_MAX_MS == 4000

VARIABLES
    data,        \* Inner.data: (ns, id) -> versions, oldest..newest; << >> is "no entry"
    commit_seq,  \* Inner.commit_seq: ns -> counter; 0 is "no entry"
    commit_log,  \* Inner.commit_log: ns -> events
    buffers,     \* Inner.buffers: ns -> list of registered buffers (indices into bufs)
    bufs,        \* the WatchBuffer cells shared (Arc) by Inner.buffers and the handles
    watches,     \* the MemWatch handles given out by subscribe
    tag_index,   \* Inner.tag_index: (ns, tag_k, tag_v) -> None or Some(set of ids)
    sweep,       \* the sweep_expired call in progress: None or Some(its locals)
    leases,      \* Inner.leases: (ns, key) -> None or Some([owner, token, expires])
    now,         \* Utc::now(), in seconds
    inner_idem,  \* Inner.idem: (ns, key) -> None or Some(IdempotencyRecord)
    dropped,     \* the MemWatch handles that were dropped
    ret,         \* the most recent step: the call, its arguments, what it returned
    pushed,      \* history: number of WatchBuffer::push calls made on each buffer
    subFrom,     \* history: the from_commit each handle was subscribed with
    subAt,       \* history: commit_seq[ns] at the time each handle was subscribed
    delivered,   \* history: the events try_next has returned on each handle, in order
    held,        \* history: the leases granted to owners and not released by them
    swept,       \* history: the (ns, id) entries the sweep in progress has removed
    chan,        \* the mpsc channel from append to the fsync worker: Enq items, oldest first
    batch,       \* the fsync worker's batch
    wpc,         \* where the fsync worker is
    inner,       \* WalInner: segment.bytes and the manifest in memory
    files,       \* data_dir/wal: segment number -> cells of the file (<< >> when n > Len)
    manifestDisk,\* data_dir/manifest.json: None or Some(manifest)
    acked,       \* the appends whose oneshot ack was sent
    crashed,     \* the process was killed
    replayOut,   \* None, or Some(what replay(data_dir) returned after the crash)
    appends,     \* history: the Enq items of all append calls, in the order enqueued
    written,     \* history: the appends whose write_all returned Ok
    synced,      \* history: the appends whose batch's sync_data returned Ok
    segRecs,     \* history: per segment, the appends whose records stand whole in it
    ioFailures,  \* history: number of write_all / sync_data errors so far
    damage,      \* history: None, or Some(the damage done to the files after the crash)
    manifest,    \* PersistentStore.manifest: the copy of the manifest taken at open
    idem,        \* PersistentStore.idem: (ns, key) -> None or Some(IdempotencyRecord)
    snapFile,    \* data_dir/snapshots: None or Some(the objects of the snapshot last taken)
    call,        \* the call that holds PersistentStore.wal: None or Some(the call)
    stuck,       \* number of put calls that wait for manifest.write() and hold a read guard
    reqs,        \* the put_objects requests of the server: each one's headers, body and position
    life         \* history: restarts so far, snapshots taken, trim done since the last
                 \* write, the idempotency_commit last returned for each (ns, key),
                 \* the idempotency_commit last called on each store in this lifetime

memVars == << data, commit_seq, commit_log, buffers, bufs, watches, tag_index, sweep,
              leases, now, inner_idem, dropped, pushed, subFrom, subAt, delivered, held,
              swept >>

walVars == << chan, batch, wpc, inner, files, manifestDisk, acked, crashed, replayOut,
              appends, written, synced, segRecs, ioFailures, damage >>

storeVars == << manifest, idem, snapFile, call, stuck, reqs, life >>

vars == << memVars, ret, walVars, storeVars >>

watchVars == << buffers, bufs, watches, pushed, subFrom, subAt, delivered >>
leaseVars == << leases, held >>
indexVars == << tag_index, sweep, swept >>

(***************************************************************************)
(* Events and buffers (traits.rs WatchEvent, mem.rs WatchBuffer).          *)
(***************************************************************************)
PutEvent(o) == [kind |-> "Put", obj |-> o]
DeleteEvent(ns, id, seq) == [kind |-> "Delete", ns |-> ns, id |-> id, commit_seq |-> seq]

\* the match on WatchEvent that reads an event's commit_seq
EventSeq(ev) == IF ev.kind = "Put" THEN ev.obj.commit_seq ELSE ev.commit_seq

\* the approximate byte weight of an event
ApproxBytes(ev) == IF ev.kind = "Put" THEN ev.obj.json_len ELSE DELETE_EVENT_BYTES

WatchBuffer_default == [events |-> << >>, cursor |-> 0, bytes |-> 0, overflow |-> FALSE]

\* mutant: the event cap compared against the length before the push
WatchBuffer_push_off_by_one(b, ev) ==
    IF b.bytes + ApproxBytes(ev) > WATCH_BUFFER_BYTES
       \/ Len(b.events) > WATCH_BUFFER_EVENTS
    THEN [b EXCEPT !.overflow = TRUE]
    ELSE [b EXCEPT !.events = Append(@, ev), !.bytes = @ + ApproxBytes(ev)]

\* mutant: the event inserted at the front of the queue
WatchBuffer_push_front(b, ev) ==
    IF b.bytes + ApproxBytes(ev) > WATCH_BUFFER_BYTES
       \/ Len(b.events) + 1 > WATCH_BUFFER_EVENTS
    THEN [b EXCEPT !.overflow = TRUE]
    ELSE [b EXCEPT !.events = << ev >> \o @, !.bytes = @ + ApproxBytes(ev)]

WatchBuffer_push(b, ev) ==
    IF b.bytes + ApproxBytes(ev) > WATCH_BUFFER_BYTES
       \/ Len(b.events) + 1 > WATCH_BUFFER_EVENTS
    THEN [b EXCEPT !.overflow = TRUE]
    ELSE [b EXCEPT !.events = Append(@, ev), !.bytes = @ + ApproxBytes(ev)]

RECURSIVE PushAll(_, _)
PushAll(b, evs) ==
    IF evs = << >> THEN b ELSE PushAll(WatchBuffer_push(b, Head(evs)), Tail(evs))

\* every buffer registered for ns receives the event
Fanout(ns, ev) ==
    [i \in 1..Len(bufs) |->
        IF \E j \in 1..Len(buffers[ns]) : buffers[ns][j] = i
        THEN WatchBuffer_push(bufs[i], ev) ELSE bufs[i]]

FanoutPushed(ns) ==
    [i \in 1..Len(pushed) |->
        IF \E j \in 1..Len(buffers[ns]) : buffers[ns][j] = i
        THEN pushed[i] + 1 ELSE pushed[i]]

(***************************************************************************)
(* Objects (model.rs).                                                     *)
(***************************************************************************)
\* Tags: a map from tag keys to tag values, kept as its set of (k, v) pairs
TAGKEYS == {"k", "j"}
TAGVALS == {"v", "w"}
NoTags == {}

\* the requests of the watch and lease specifications carry no tags and no ttl
PutRequests == [id : {None} \cup {Some(i) : i \in IDS}, tags : {NoTags}, ttl_seconds : {None}]

\* Ulid::new(): an id no object of the namespace carries
FreshIds(ns) == {i \in IDS : data[ns, i] = << >>}

\* id is req.id, or the fresh Ulid when the request carries none
Object_new_with_seq(ns, id, req, seq) ==
    [id |-> id, ns |-> ns, tags |-> req.tags, ttl_seconds |-> req.ttl_seconds,
     ts |-> now, commit_seq |-> seq, json_len |-> PutJsonLen]

\* mutant: the counter inserted at 1 and never incremented
NextSeq_no_increment(ns) == IF commit_seq[ns] = 0 THEN 1 ELSE commit_seq[ns]

\* mutant: the counter inserted at 1 whatever it held
NextSeq_insert_only(ns) == 1

\* entry(ns).and_modify(|c| *c += 1).or_insert(1)
NextSeq(ns) == commit_seq[ns] + 1

RECURSIVE SumOver(_, _)
SumOver(f, S) ==
    IF S = {} THEN 0
    ELSE LET x == CHOOSE y \in S : TRUE IN f[x] + SumOver(f, S \ {x})

\* the number of counter bumps made so far, which the model caps
Bumps == SumOver(commit_seq, NS)

(***************************************************************************)
(* InMemoryStore::new                                                      *)
(***************************************************************************)
MemInit ==
    /\ data = [k \in NS \X IDS |-> << >>]
    /\ commit_seq = [n \in NS |-> 0]
    /\ commit_log = [n \in NS |-> << >>]
    /\ buffers = [n \in NS |-> << >>]
    /\ bufs = << >>
    /\ watches = << >>
    /\ tag_index = [k \in NS \X TAGKEYS \X TAGVALS |-> None]
    /\ sweep = None
    /\ swept = {}
    /\ leases = [k \in NS \X KEYS |-> None]
    /\ now = 0
    /\ inner_idem = [k \in NS \X IDEM_KEYS |-> None]
    /\ dropped = {}
    /\ ret = [op |-> "new", args |-> << >>, res |-> "Ok"]
    /\ pushed = << >>
    /\ subFrom = << >>
    /\ subAt = << >>
    /\ delivered = << >>
    /\ held = [k \in NS \X KEYS |-> {}]

(***************************************************************************)
(* InMemoryStore::put                                                      *)
(***************************************************************************)
\* tag_index.entry((ns, k, v)).or_default().insert(id) for each (k, v) of the tags;
\* no entry of the index is taken back.  json_index_paths is never written to, so
\* the loop over the registered JSON paths has nothing to do.
TagIndexInsert(idx, o) ==
    [e \in DOMAIN idx |->
        IF e[1] = o.ns /\ << e[2], e[3] >> \in o.tags
        THEN Some((IF idx[e] = None THEN {} ELSE idx[e][1]) \cup {o.id})
        ELSE idx[e]]

\* the object the call builds and returns
PutObject(ns, id, req) == Object_new_with_seq(ns, id, req, NextSeq(ns))

PutApply(ns, id, req) ==
    LET seq == NextSeq(ns)
        obj == PutObject(ns, id, req)
    IN  /\ Bumps < MaxCommits
        /\ commit_seq' = [commit_seq EXCEPT ![ns] = seq]
        /\ data' = [data EXCEPT ![ns, id] = Append(@, obj)]
        /\ tag_index' = TagIndexInsert(tag_index, obj)
        /\ commit_log' = [commit_log EXCEPT ![ns] = Append(@, PutEvent(obj))]
        /\ bufs' = Fanout(ns, PutEvent(obj))
        /\ pushed' = FanoutPushed(ns)
        /\ UNCHANGED << buffers, watches, subFrom, subAt, delivered, leases, held, now, inner_idem, dropped,
                        sweep, swept >>

put(ns, req) ==
    IF req.id = None
    THEN \E id \in FreshIds(ns) : PutApply(ns, id, req)
    ELSE PutApply(ns, req.id[1], req)

(***************************************************************************)
(* InMemoryStore::delete                                                   *)
(***************************************************************************)
\* mutant: any entry of the namespace counts
existed_in_namespace(ns, id) == \E i \in IDS : data[ns, i] # << >>

\* data.remove(&key).is_some()
existed(ns, id) == data[ns, id] # << >>

delete_result(ns, id) == IF existed(ns, id) THEN "Ok" ELSE "NotFound"

delete(ns, id) ==
    IF existed(ns, id)
    THEN LET seq == NextSeq(ns)
             ev == DeleteEvent(ns, id, seq)
         IN  /\ Bumps < MaxCommits
             /\ data' = [data EXCEPT ![ns, id] = << >>]
             /\ commit_seq' = [commit_seq EXCEPT ![ns] = seq]
             /\ commit_log' = [commit_log EXCEPT ![ns] = Append(@, ev)]
             /\ bufs' = Fanout(ns, ev)
             /\ pushed' = FanoutPushed(ns)
             /\ UNCHANGED << buffers, watches, subFrom, subAt, delivered, leases, held, now, inner_idem, dropped,
                             indexVars >>
    ELSE UNCHANGED << data, commit_seq, commit_log, watchVars, leaseVars, now, inner_idem, dropped, indexVars >>

(***************************************************************************)
(* InMemoryStore::subscribe                                                *)
(***************************************************************************)
\* mutant: the backlog includes the event the subscriber resumes from
Backlog_inclusive(ns, from_commit) ==
    IF from_commit = None THEN << >>
    ELSE SelectSeq(commit_log[ns], LAMBDA ev : EventSeq(ev) >= from_commit[1])

\* the events of the log the new buffer is primed with
Backlog(ns, from_commit) ==
    IF from_commit = None THEN << >>
    ELSE SelectSeq(commit_log[ns], LAMBDA ev : EventSeq(ev) > from_commit[1])

\* the resume points drawn: none, or one that leaves room for two later commits
FromCommits == {None} \cup {Some(k) : k \in 0..(MaxCommits - 2)}

InMemoryStore_subscribe(ns, from_commit) ==
    LET buf == PushAll(WatchBuffer_default, Backlog(ns, from_commit))
        idx == Len(bufs) + 1
    IN  /\ bufs' = Append(bufs, buf)
        /\ buffers' = [buffers EXCEPT ![ns] = Append(@, idx)]
        /\ watches' = Append(watches,
               [buf |-> idx, ns |-> ns,
                last_commit |-> IF from_commit = None THEN 0 ELSE from_commit[1]])
        /\ pushed' = Append(pushed, Len(Backlog(ns, from_commit)))
        /\ subFrom' = Append(subFrom, from_commit)
        /\ subAt' = Append(subAt, commit_seq[ns])
        /\ delivered' = Append(delivered, << >>)
        /\ UNCHANGED << data, commit_seq, commit_log, leaseVars, now, inner_idem, dropped, indexVars >>

\* the subscriptions of the specifications, capped
subscribe(ns, from_commit) ==
    /\ Len(watches) < MaxHandles
    /\ InMemoryStore_subscribe(ns, from_commit)

(***************************************************************************)
(* MemWatch::try_next, MemWatch::last_commit, MemWatch::overflow_meta      *)
(***************************************************************************)
saturating_sub(a, b) == IF a >= b THEN a - b ELSE 0

\* the Some(ev) branch; the None branch returns without touching anything
try_next(h) ==
    LET b == bufs[watches[h].buf]
    IN  /\ b.cursor < Len(b.events)
        /\ LET ev == b.events[b.cursor + 1]
           IN  /\ bufs' = [bufs EXCEPT ![watches[h].buf] =
                        [b EXCEPT !.cursor = @ + 1,
                                  !.bytes = saturating_sub(@, ApproxBytes(ev))]]
               /\ watches' = [watches EXCEPT ![h].last_commit = EventSeq(ev)]
               /\ delivered' = [delivered EXCEPT ![h] = Append(@, ev)]
        /\ UNCHANGED << data, commit_seq, commit_log, buffers, pushed, subFrom, subAt,
                        leaseVars, now, inner_idem, dropped, indexVars >>

last_commit(h) == watches[h].last_commit

\* a MemWatch goes out of scope.  MemWatch has no Drop impl: its fields are dropped,
\* among them its Arc<WatchBuffer>, of which buffers[ns] keeps a clone of its own.
MemWatch_drop(h) ==
    /\ h \notin dropped
    /\ dropped' = dropped \cup {h}
    /\ UNCHANGED << data, commit_seq, commit_log, watchVars, leaseVars, now, inner_idem,
                    indexVars >>

\* InMemoryStore::backlog_map: per namespace the largest len - cursor of its buffers
backlog_map ==
    [ns \in NS |->
        LET S == {saturating_sub(Len(bufs[buffers[ns][i]].events),
                                 bufs[buffers[ns][i]].cursor) : i \in 1..Len(buffers[ns])}
        IN  IF S = {} THEN 0 ELSE CHOOSE m \in S : \A x \in S : x <= m]

RetryAfterMs == (WATCH_RETRY_MIN_MS + WATCH_RETRY_MAX_MS) \div 2

overflow_meta(h) ==
    IF bufs[watches[h].buf].overflow
    THEN Some(<< watches[h].last_commit, RetryAfterMs >>)
    ELSE None

\* the Result a call hands back, with the arguments of the call
Returned(op, args, res) == [op |-> op, args |-> args, res |-> res]

(***************************************************************************)
(* Leases: InMemoryStore::lease_acquire, lease_renew, lease_release and    *)
(* validate_fence.  A lease is [owner, token, expires].                    *)
(***************************************************************************)
TTLS == 0..MaxTtl
TOKENS == 1..MaxCommits

\* mutant: the owner comparison is inverted
lease_held_by_other_same_owner(ns, key, owner) ==
    /\ leases[ns, key] # None
    /\ leases[ns, key][1].expires > now
    /\ leases[ns, key][1].owner = owner

\* cur_exp > now && cur_owner != owner
lease_held_by_other(ns, key, owner) ==
    /\ leases[ns, key] # None
    /\ leases[ns, key][1].expires > now
    /\ leases[ns, key][1].owner # owner

lease_acquire_result(ns, key, owner) ==
    IF lease_held_by_other(ns, key, owner) THEN "Conflict" ELSE "Ok"

\* the counter is bumped before the current lease is looked at
lease_acquire(ns, key, owner, ttl_secs) ==
    LET expires == now + ttl_secs
        token == NextSeq(ns)
        lease == [owner |-> owner, token |-> token, expires |-> expires]
    IN  /\ Bumps < MaxCommits
        /\ commit_seq' = [commit_seq EXCEPT ![ns] = token]
        /\ IF lease_held_by_other(ns, key, owner)
           THEN UNCHANGED << leases, held >>
           ELSE /\ leases' = [leases EXCEPT ![ns, key] = Some(lease)]
                /\ held' = [held EXCEPT ![ns, key] =
                               {g \in @ : g.owner # owner} \cup {lease}]
        /\ UNCHANGED << data, commit_log, watchVars, now, inner_idem, dropped, indexVars >>

\* mutant: the token is not compared
lease_matches_owner(ns, key, owner, token) == leases[ns, key][1].owner = owner

\* cur_owner == owner && cur_tok == token
lease_matches(ns, key, owner, token) ==
    /\ leases[ns, key][1].owner = owner
    /\ leases[ns, key][1].token = token

lease_renew_result(ns, key, owner, token) ==
    IF leases[ns, key] = None THEN "NotFound"
    ELSE IF ~lease_matches(ns, key, owner, token) THEN "Conflict" ELSE "Ok"

lease_renew(ns, key, owner, token, ttl_secs) ==
    LET expires == now + ttl_secs
    IN  /\ IF lease_renew_result(ns, key, owner, token) = "Ok"
           THEN /\ leases' = [leases EXCEPT ![ns, key] =
                                 Some([@[1] EXCEPT !.expires = expires])]
                /\ held' = [held EXCEPT ![ns, key] =
                               {g \in @ : ~(g.owner = owner /\ g.token = token)}
                               \cup {[leases[ns, key][1] EXCEPT !.expires = expires]}]
           ELSE UNCHANGED << leases, held >>
        /\ UNCHANGED << data, commit_seq, commit_log, watchVars, now, inner_idem, dropped, indexVars >>

lease_release_result(ns, key, owner, token) ==
    IF leases[ns, key] = None THEN "NotFound"
    ELSE IF ~lease_matches(ns, key, owner, token) THEN "Conflict" ELSE "Ok"

\* a mismatching entry is removed and inserted again unchanged
lease_release(ns, key, owner, token) ==
    /\ IF lease_release_result(ns, key, owner, token) = "Ok"
       THEN /\ leases' = [leases EXCEPT ![ns, key] = None]
            /\ held' = [held EXCEPT ![ns, key] =
                           {g \in @ : ~(g.owner = owner /\ g.token = token)}]
       ELSE UNCHANGED << leases, held >>
    /\ UNCHANGED << data, commit_seq, commit_log, watchVars, now, inner_idem, dropped, indexVars >>

\* mutant: a lease that expires now still validates
fence_valid_at_expiry(ns, resource, fence) ==
    /\ leases[ns, resource] # None
    /\ leases[ns, resource][1].token = fence
    /\ leases[ns, resource][1].expires >= now

\* *tok == fence && *exp > Utc::now()
fence_valid(ns, resource, fence) ==
    /\ leases[ns, resource] # None
    /\ leases[ns, resource][1].token = fence
    /\ leases[ns, resource][1].expires > now

validate_fence_result(ns, resource, fence) ==
    IF fence_valid(ns, resource, fence) THEN "Ok" ELSE "Conflict"

\* takes the read lock only
validate_fence(ns, resource, fence) ==
    UNCHANGED << data, commit_seq, commit_log, watchVars, leaseVars, now, inner_idem, dropped, indexVars >>

\* Utc::now() advances
Tick ==
    /\ now < MaxTime
    /\ now' = now + 1
    /\ ret' = Returned("Tick", << >>, "Ok")
    /\ UNCHANGED << data, commit_seq, commit_log, watchVars, leaseVars, indexVars, inner_idem, dropped >>

(***************************************************************************)
(* InMemoryStore::idempotency_commit and idempotency_lookup                *)
(***************************************************************************)
\* the two implementations of the Storage trait
STORES == {"InMemoryStore", "PersistentStore"}

IdempotencyRecord(body_hash, response, expires_at) ==
    [body_hash |-> body_hash, response |-> response, expires_at |-> expires_at]

\* the record is inserted over whatever (ns, key) held
idempotency_commit(ns, key, body_hash, response, expires_at) ==
    /\ inner_idem' = [inner_idem EXCEPT ![ns, key] =
                         Some(IdempotencyRecord(body_hash, response, expires_at))]
    /\ UNCHANGED << data, commit_seq, commit_log, watchVars, leaseVars, now, dropped,
                    indexVars >>

\* mutant: the body_hash of the stored record is not compared
lookup_any_hash(m, ns, key, body_hash) ==
    IF m[ns, key] = None THEN [kind |-> "Ok", rec |-> None]
    ELSE [kind |-> "Ok", rec |-> m[ns, key]]

\* the body of idempotency_lookup, the same in both stores, over the map m
lookup(m, ns, key, body_hash) ==
    IF m[ns, key] = None THEN [kind |-> "Ok", rec |-> None]
    ELSE IF m[ns, key][1].body_hash = body_hash
    THEN [kind |-> "Ok", rec |-> m[ns, key]]
    ELSE [kind |-> "Conflict", rec |-> None]

\* takes the read lock only
idempotency_lookup(ns, key, body_hash) ==
    UNCHANGED << data, commit_seq, commit_log, watchVars, leaseVars, now, inner_idem,
                 dropped, indexVars >>

(***************************************************************************)
(* InMemoryStore::is_expired, get, query                                   *)
(***************************************************************************)
Last(seq) == seq[Len(seq)]
Front(seq) == SubSeq(seq, 1, Len(seq) - 1)

\* mutant: a version counts as expired from the instant its ttl has run out
is_expired_at_deadline(o, t) ==
    o.ttl_seconds # None /\ o.ts + o.ttl_seconds[1] <= t

\* o.ts + Duration::seconds(ttl) < now; a version without ttl never expires
is_expired(o, t) ==
    o.ttl_seconds # None /\ o.ts + o.ttl_seconds[1] < t

GetOptions == [at_ts : {None, Some(0), Some(1)}]

\* for v in versions.iter().rev(): the first version, newest first, that is not
\* later than at_ts and not expired
RECURSIVE GetScan(_, _)
GetScan(versions, opts) ==
    IF versions = << >> THEN None
    ELSE LET v == Last(versions)
         IN  IF opts.at_ts # None /\ v.ts > opts.at_ts[1]
             THEN GetScan(Front(versions), opts)
             ELSE IF ~is_expired(v, now) THEN Some(v)
             ELSE GetScan(Front(versions), opts)

\* Result<Object>: Some(object), or None for Err(NotFound)
get_result(ns, id, opts) ==
    IF data[ns, id] = << >> THEN None ELSE GetScan(data[ns, id], opts)

\* takes the read lock only
get(ns, id, opts) ==
    UNCHANGED << data, commit_seq, commit_log, watchVars, leaseVars, now, inner_idem, dropped, indexVars >>

\* the tag filters of the queries: no filter, one pair, two pairs
TagFilters == { {}, {<< "k", "v" >>}, {<< "k", "w" >>} }

\* the intersection of the index entries of the filter pairs
RECURSIVE CandidateIds(_, _, _)
CandidateIds(ns, pairs, cand) ==
    IF pairs = {} THEN cand
    ELSE LET p == CHOOSE q \in pairs : TRUE
         IN  CandidateIds(ns, pairs \ {p}, cand \cap tag_index[ns, p[1], p[2]][1])

\* the current versions of the candidates, or of the whole namespace without a
\* filter, that are not expired; the Vec is kept as a set (its order is that of
\* a HashMap iteration).  No vector clause, no limit.
query_result(ns, tag_filter) ==
    IF \E p \in tag_filter : tag_index[ns, p[1], p[2]] = None THEN {}
    ELSE LET ids == IF tag_filter = {} THEN IDS ELSE CandidateIds(ns, tag_filter, IDS)
         IN  { Last(data[ns, id]) :
                 id \in {i \in ids : data[ns, i] # << >> /\ ~is_expired(Last(data[ns, i]), now)} }

\* takes the read lock only
query(ns, tag_filter) ==
    UNCHANGED << data, commit_seq, commit_log, watchVars, leaseVars, now, inner_idem, dropped, indexVars >>

(***************************************************************************)
(* InMemoryStore::sweep_expired and cleanup_indexes_for.  The write lock   *)
(* is given up after each removal and taken again by the index cleanup, so *)
(* other calls run between the steps of one sweep.                         *)
(***************************************************************************)
Keys(d) == {k \in DOMAIN d : d[k] # << >>}

\* set.remove(&obj.id) on the entry of each (k, v) of the tags of the removed version
cleanup_indexes_for(idx, o) ==
    [e \in DOMAIN idx |->
        IF e[1] = o.ns /\ << e[2], e[3] >> \in o.tags /\ idx[e] # None
        THEN Some(idx[e][1] \ {o.id})
        ELSE idx[e]]

\* mutant: the oldest version of the entry is looked at
first_expired(versions, t) ==
    /\ versions # << >>
    /\ Head(versions).ttl_seconds # None
    /\ Head(versions).ts + Head(versions).ttl_seconds[1] < t

\* vec.last() is there and last.ts + Duration::seconds(t) < now
last_expired(versions, t) ==
    /\ versions # << >>
    /\ Last(versions).ttl_seconds # None
    /\ Last(versions).ts + Last(versions).ttl_seconds[1] < t

\* let now = Utc::now(); let keys = inner.data.keys().cloned().collect()
sweep_begin ==
    /\ sweep = None
    /\ sweep' = Some([now |-> now, keys |-> Keys(data), removed |-> 0, dead |-> None])
    /\ swept' = {}
    /\ UNCHANGED << data, commit_seq, commit_log, watchVars, leaseVars, now, inner_idem, dropped, tag_index >>

\* one turn of the loop over keys: an entry whose last version is expired is
\* removed and the lock dropped
sweep_scan(k) ==
    /\ sweep # None
    /\ sweep[1].dead = None
    /\ k \in sweep[1].keys
    /\ IF last_expired(data[k], sweep[1].now)
       THEN /\ data' = [data EXCEPT ![k] = << >>]
            /\ sweep' = Some([sweep[1] EXCEPT !.keys = @ \ {k}, !.removed = @ + 1,
                                              !.dead = Some(Last(data[k]))])
            /\ swept' = swept \cup {k}
       ELSE /\ sweep' = Some([sweep[1] EXCEPT !.keys = @ \ {k}])
            /\ UNCHANGED << data, swept >>
    /\ UNCHANGED << commit_seq, commit_log, watchVars, leaseVars, now, inner_idem, dropped, tag_index >>

\* self.cleanup_indexes_for(&o).await; inner = self.inner.write()
sweep_cleanup ==
    /\ sweep # None
    /\ sweep[1].dead # None
    /\ tag_index' = cleanup_indexes_for(tag_index, sweep[1].dead[1])
    /\ sweep' = Some([sweep[1] EXCEPT !.dead = None])
    /\ UNCHANGED << data, commit_seq, commit_log, watchVars, leaseVars, now, inner_idem, dropped, swept >>

\* Ok(removed)
sweep_return ==
    /\ sweep # None
    /\ sweep[1].dead = None
    /\ sweep[1].keys = {}
    /\ sweep' = None
    /\ swept' = {}
    /\ UNCHANGED << data, commit_seq, commit_log, watchVars, leaseVars, now, inner_idem, dropped, tag_index >>

(***************************************************************************)
(* The write-ahead log (walbin.rs).  A file is a sequence of cells: one    *)
(* cell per header field, one per item of the encoded body, one for the    *)
(* CRC trailer.  Segment "0000000n.wal" is segment number n.               *)
(***************************************************************************)
MAGIC == 65
VER == 1
REC_PUT == 1
REC_DELETE == 2
REC_LEASE_ACQUIRE == 3
REC_IDEMPOTENCY == 6
\* header fields: magic, ver, type, ns_hash, seq, ts, len
HDR_LEN == 7
CRC_LEN == 1
CHANNEL_CAPACITY == 1024
\* the checksum is a sum modulo an odd number: like CRC32C it catches every one-bit change
CrcMod == 251

RECURSIVE SumSeq(_)
SumSeq(s) == IF s = << >> THEN 0 ELSE Head(s) + SumSeq(Tail(s))

crc32c(cells) == SumSeq(cells) % CrcMod

Max(a, b) == IF a >= b THEN a ELSE b

NsCode(ns) == IF ns = "a" THEN 1 ELSE 2
IdCode(id) == IF id = "x" THEN 1 ELSE 2
NsOfCode(c) == IF c = 1 THEN "a" ELSE "b"
IdOfCode(c) == IF c = 1 THEN "x" ELSE "y"
OwnerCode(o) == IF o = "o1" THEN 1 ELSE 2
OwnerOfCode(c) == IF c = 1 THEN "o1" ELSE "o2"
\* a lease key and an idempotency key: the model has one of each
KeyCode(k) == 1

\* RecBody; the obj of a Put is kept as its id and commit_seq
RecBody_Put(ns, id, seq) == [kind |-> "Put", ns |-> ns, id |-> id, commit_seq |-> seq]
RecBody_Delete(ns, id) == [kind |-> "Delete", ns |-> ns, id |-> id]
RecBody_LeaseAcquire(ns, key, owner, token, ttl) ==
    [kind |-> "LeaseAcquire", ns |-> ns, key |-> key, owner |-> owner, token |-> token,
     ttl |-> ttl]
RecBody_Idempotency(ns, key, response, expires_ts) ==
    [kind |-> "Idempotency", ns |-> ns, key |-> key, response |-> response,
     expires_ts |-> expires_ts]

rectype(b) ==
    IF b.kind = "Put" THEN REC_PUT
    ELSE IF b.kind = "Delete" THEN REC_DELETE
    ELSE IF b.kind = "LeaseAcquire" THEN REC_LEASE_ACQUIRE
    ELSE REC_IDEMPOTENCY

\* ciborium::ser::into_writer(body)
encode_body(b) ==
    IF b.kind = "Put"
    THEN << REC_PUT, NsCode(b.ns), IdCode(b.id), b.commit_seq >>
    ELSE IF b.kind = "Delete"
    THEN << REC_DELETE, NsCode(b.ns), IdCode(b.id) >>
    ELSE IF b.kind = "LeaseAcquire"
    THEN << REC_LEASE_ACQUIRE, NsCode(b.ns), KeyCode(b.key), OwnerCode(b.owner), b.token,
            b.ttl >>
    ELSE << REC_IDEMPOTENCY, NsCode(b.ns), KeyCode(b.key), b.response, b.expires_ts >>

\* ciborium::de::from_reader::<RecBody>(body): None when the cells are no RecBody
decode_body(cells) ==
    IF Len(cells) = 4 /\ cells[1] = REC_PUT /\ cells[2] \in {1, 2} /\ cells[3] \in {1, 2}
    THEN Some(RecBody_Put(NsOfCode(cells[2]), IdOfCode(cells[3]), cells[4]))
    ELSE IF Len(cells) = 3 /\ cells[1] = REC_DELETE /\ cells[2] \in {1, 2}
            /\ cells[3] \in {1, 2}
    THEN Some(RecBody_Delete(NsOfCode(cells[2]), IdOfCode(cells[3])))
    ELSE IF Len(cells) = 6 /\ cells[1] = REC_LEASE_ACQUIRE /\ cells[2] \in {1, 2}
            /\ cells[3] = 1 /\ cells[4] \in {1, 2}
    THEN Some(RecBody_LeaseAcquire(NsOfCode(cells[2]), "r", OwnerOfCode(cells[4]),
                                   cells[5], cells[6]))
    ELSE IF Len(cells) = 5 /\ cells[1] = REC_IDEMPOTENCY /\ cells[2] \in {1, 2}
            /\ cells[3] = 1
    THEN Some(RecBody_Idempotency(NsOfCode(cells[2]), "q", cells[4], cells[5]))
    ELSE None

\* the framed record append builds: header, body, crc32c over both
EncodeRecord(seq, ts, body) ==
    LET v == encode_body(body)
        rec == << MAGIC, VER, rectype(body), 0, seq, ts, Len(v) >> \o v
    IN  rec \o << crc32c(rec) >>

Manifest_new ==
    [current_snapshot |-> None, snapshot_bookmark |-> None, last_seq |-> 0,
     current_segment |-> 0, segments |-> << >>]

\* mutant: the name of the first segment whatever the list holds
new_segment_name_first(segments) == 1

new_segment_name(segments) ==
    IF segments = << >> THEN 1 ELSE segments[Len(segments)].name + 1

\* WalWriter::open on an empty data_dir: the first segment file is created and
\* listed in the manifest in memory; manifest.json is not written yet
WalInit ==
    /\ chan = << >>
    /\ batch = << >>
    /\ wpc = [at |-> "recv", i |-> 0]
    /\ inner = [bytes |-> 0,
                manifest |-> [Manifest_new EXCEPT
                                 !.current_segment = new_segment_name(Manifest_new.segments),
                                 !.segments = << [name |-> new_segment_name(Manifest_new.segments),
                                                  max_seq |-> 0] >>]]
    /\ files = << << >> >>
    /\ manifestDisk = None
    /\ acked = {}
    /\ crashed = FALSE
    /\ replayOut = None
    /\ appends = << >>
    /\ written = {}
    /\ synced = {}
    /\ segRecs = << << >> >>
    /\ ioFailures = 0
    /\ damage = None

\* the bodies a caller appends: the i-th call carries a Put with seq i or a Delete with seq 0
AppendRequests ==
    { [seq |-> Len(appends) + 1, body |-> RecBody_Put("a", "x", Len(appends) + 1)],
      [seq |-> 0, body |-> RecBody_Delete("a", "x")] }

\* WalWriter::append up to the send; the caller then waits for the ack
WalWriter_append(seq, ts, body) ==
    /\ ~crashed
    /\ Len(chan) < CHANNEL_CAPACITY
    /\ appends' = Append(appends, [rec |-> EncodeRecord(seq, ts, body), seq |-> seq,
                                   body |-> body])
    /\ chan' = Append(chan, Len(appends) + 1)
    /\ UNCHANGED << batch, wpc, inner, files, manifestDisk, acked, crashed, replayOut,
                    written, synced, segRecs, ioFailures, damage >>

\* the appends of the log specification, capped
append(seq, ts, body) ==
    /\ Len(appends) < MaxAppends
    /\ WalWriter_append(seq, ts, body)

RECURSIVE BatchBytes(_)
BatchBytes(b) == IF b = << >> THEN 0 ELSE Len(appends[Head(b)].rec) + BatchBytes(Tail(b))

\* fsync_worker: while let Some(first) = rx.recv().await
WorkerRecv ==
    /\ ~crashed
    /\ wpc.at = "recv"
    /\ chan # << >>
    /\ batch' = << Head(chan) >>
    /\ chan' = Tail(chan)
    /\ wpc' = [at |-> "collect", i |-> 0]
    /\ UNCHANGED << inner, files, manifestDisk, acked, crashed, replayOut, appends,
                    written, synced, segRecs, ioFailures, damage >>

\* mutant: the record received is put at the head of the batch
WorkerCollect_push_front ==
    /\ ~crashed
    /\ wpc.at = "collect"
    /\ chan # << >>
    /\ batch' = << Head(chan) >> \o batch
    /\ chan' = Tail(chan)
    /\ wpc' = IF BatchBytes(Append(batch, Head(chan))) >= BatchMax
              THEN [at |-> "write", i |-> 1] ELSE wpc
    /\ UNCHANGED << inner, files, manifestDisk, acked, crashed, replayOut, appends,
                    written, synced, segRecs, ioFailures, damage >>

\* the select! arm that receives a further record
WorkerCollect ==
    /\ ~crashed
    /\ wpc.at = "collect"
    /\ chan # << >>
    /\ batch' = Append(batch, Head(chan))
    /\ chan' = Tail(chan)
    /\ wpc' = IF BatchBytes(Append(batch, Head(chan))) >= BatchMax
              THEN [at |-> "write", i |-> 1] ELSE wpc
    /\ UNCHANGED << inner, files, manifestDisk, acked, crashed, replayOut, appends,
                    written, synced, segRecs, ioFailures, damage >>

\* the select! arm of the batch deadline
WorkerDeadline ==
    /\ ~crashed
    /\ wpc.at = "collect"
    /\ wpc' = [at |-> "write", i |-> 1]
    /\ UNCHANGED << chan, batch, inner, files, manifestDisk, acked, crashed, replayOut,
                    appends, written, synced, segRecs, ioFailures, damage >>

MaxRecLen == HDR_LEN + 4 + CRC_LEN

Range(s) == {s[j] : j \in 1..Len(s)}

\* inner.segment.file.write_all(&enq.rec), its result dropped: k cells reach the
\* file; k short of the record is an error (the MaxIoFailures-th at most)
WorkerWrite(k) ==
    /\ ~crashed
    /\ wpc.at = "write"
    /\ LET id == batch[wpc.i]
           rec == appends[id].rec
           cur == inner.manifest.current_segment
       IN  /\ k <= Len(rec)
           /\ k < Len(rec) => ioFailures < MaxIoFailures
           /\ files' = [files EXCEPT ![cur] = @ \o SubSeq(rec, 1, k)]
           /\ IF k = Len(rec)
              THEN /\ written' = written \cup {id}
                   /\ segRecs' = [segRecs EXCEPT ![cur] = Append(@, id)]
                   /\ UNCHANGED ioFailures
              ELSE /\ ioFailures' = ioFailures + 1
                   /\ UNCHANGED << written, segRecs >>
    /\ wpc' = IF wpc.i < Len(batch) THEN [at |-> "write", i |-> wpc.i + 1]
              ELSE [at |-> "sync", i |-> 0]
    /\ UNCHANGED << chan, batch, inner, manifestDisk, acked, crashed, replayOut, appends,
                    synced, damage >>

\* segment.bytes and the manifest in memory are brought up to date, then
\* flush and sync_data run, their results dropped
WorkerSync(ok) ==
    /\ ~crashed
    /\ wpc.at = "sync"
    /\ ~ok => ioFailures < MaxIoFailures
    /\ LET last_seq == appends[batch[Len(batch)]].seq
           m == inner.manifest
           n == Len(m.segments)
       IN  inner' = [bytes |-> inner.bytes + BatchBytes(batch),
                     manifest |-> [m EXCEPT !.last_seq = Max(@, last_seq),
                                            !.segments[n].max_seq = Max(@, last_seq)]]
    /\ synced' = IF ok THEN synced \cup Range(batch) ELSE synced
    /\ ioFailures' = IF ok THEN ioFailures ELSE ioFailures + 1
    /\ wpc' = [at |-> "persist", i |-> 0]
    /\ UNCHANGED << chan, batch, files, manifestDisk, acked, crashed, replayOut, appends,
                    written, segRecs, damage >>

\* persist_manifest_at(dir, manifest): write manifest.json.tmp, rename over manifest.json
persist_manifest_at(m) == manifestDisk' = Some(m)

WorkerPersist ==
    /\ ~crashed
    /\ wpc.at = "persist"
    /\ persist_manifest_at(inner.manifest)
    /\ wpc' = IF inner.bytes >= SegSize THEN [at |-> "rotate", i |-> 0]
              ELSE [at |-> "ack", i |-> 0]
    /\ UNCHANGED << chan, batch, inner, files, acked, crashed, replayOut, appends,
                    written, synced, segRecs, ioFailures, damage >>

\* rotate_locked: a new empty segment becomes the current one and is listed
WorkerRotate ==
    /\ ~crashed
    /\ wpc.at = "rotate"
    /\ LET name == new_segment_name(inner.manifest.segments)
           m == [inner.manifest EXCEPT
                    !.current_segment = name,
                    !.segments = Append(@, [name |-> name,
                                            max_seq |-> inner.manifest.last_seq])]
       IN  /\ files' = [j \in 1..Max(Len(files), name) |->
                           IF j <= Len(files) THEN files[j] ELSE << >>]
           /\ segRecs' = [j \in 1..Max(Len(segRecs), name) |->
                             IF j <= Len(segRecs) THEN segRecs[j] ELSE << >>]
           /\ inner' = [bytes |-> 0, manifest |-> m]
           /\ persist_manifest_at(m)
    /\ wpc' = [at |-> "ack", i |-> 0]
    /\ UNCHANGED << chan, batch, acked, crashed, replayOut, appends, written, synced,
                    ioFailures, damage >>

\* for enq in batch { enq.ack.send(()) }
WorkerAck ==
    /\ ~crashed
    /\ wpc.at = "ack"
    /\ acked' = acked \cup Range(batch)
    /\ batch' = << >>
    /\ wpc' = [at |-> "recv", i |-> 0]
    /\ UNCHANGED << chan, inner, files, manifestDisk, crashed, replayOut, appends,
                    written, synced, segRecs, ioFailures, damage >>

\* the process is killed: what was written to the files stays, the channel and the
\* worker are gone.  A kill inside write_all leaves the first k cells of the record.
Crash(k) ==
    /\ ~crashed
    /\ crashed' = TRUE
    /\ IF k > 0
       THEN /\ wpc.at = "write"
            /\ k < Len(appends[batch[wpc.i]].rec)
            /\ files' = [files EXCEPT ![inner.manifest.current_segment] =
                            @ \o SubSeq(appends[batch[wpc.i]].rec, 1, k)]
            /\ damage' = Some([kind |-> "torn", seg |-> inner.manifest.current_segment,
                               rec |-> 0, n |-> k])
       ELSE UNCHANGED << files, damage >>
    /\ chan' = << >>
    /\ batch' = << >>
    /\ wpc' = [at |-> "dead", i |-> 0]
    /\ UNCHANGED << inner, manifestDisk, acked, replayOut, appends, written, synced,
                    segRecs, ioFailures >>

(***************************************************************************)
(* replay(data_dir)                                                        *)
(***************************************************************************)
\* mutant: a read that ends exactly at the end of the file fails as well
read_exact_fails_at_eof(cells, pos, n) == pos + n - 1 >= Len(cells)

\* f.read_exact(&mut buf) is Err when fewer than n cells are left
read_exact_fails(cells, pos, n) == pos + n - 1 > Len(cells)

\* mutant: the trailer is not compared
crc_matches_always(crc, got) == TRUE

crc_matches(crc, got) == crc = got

\* the loop over one segment file; every break leaves what was pushed so far
RECURSIVE ReplayFrom(_, _, _)
ReplayFrom(cells, pos, out) ==
    IF read_exact_fails(cells, pos, HDR_LEN) THEN out
    ELSE LET hdr == SubSeq(cells, pos, pos + HDR_LEN - 1)
             len == hdr[HDR_LEN]
             bpos == pos + HDR_LEN
         IN  IF hdr[1] # MAGIC THEN out
             ELSE IF read_exact_fails(cells, bpos, len) THEN out
             ELSE IF read_exact_fails(cells, bpos + len, CRC_LEN) THEN out
             ELSE LET body == SubSeq(cells, bpos, bpos + len - 1)
                      got == cells[bpos + len]
                      v == decode_body(body)
                  IN  IF ~crc_matches(crc32c(hdr \o body), got) THEN out
                      ELSE ReplayFrom(cells, bpos + len + CRC_LEN,
                                      IF v # None THEN Append(out, v[1]) ELSE out)

ReplayFile(cells) == ReplayFrom(cells, 1, << >>)

\* for meta in manifest.segments: a listed file that cannot be opened is passed over
RECURSIVE ReplaySegments(_)
ReplaySegments(segs) ==
    IF segs = << >> THEN << >>
    ELSE (IF Head(segs).name \in 1..Len(files) THEN ReplayFile(files[Head(segs).name])
          ELSE << >>) \o ReplaySegments(Tail(segs))

\* the manifest replay loads: manifest.json, or Manifest::default() without it
LoadedManifest == IF manifestDisk = None THEN Manifest_new ELSE manifestDisk[1]

replay == ReplaySegments(LoadedManifest.segments)

Replay ==
    /\ crashed
    /\ replayOut = None
    /\ replayOut' = Some(replay)
    /\ UNCHANGED << chan, batch, wpc, inner, files, manifestDisk, acked, crashed, appends,
                    written, synced, segRecs, ioFailures, damage >>

(***************************************************************************)
(* Damage done to the segment files between the crash and the replay.      *)
(***************************************************************************)
\* the file of the segment holds whole records and nothing else
WholeRecordsOnly(seg) == Len(files[seg]) = BatchBytes(segRecs[seg])

RecOffset(seg, r) == BatchBytes(SubSeq(segRecs[seg], 1, r - 1))

ListedSegments == {LoadedManifest.segments[j].name : j \in 1..Len(LoadedManifest.segments)}

FlipBitOf(v, b) == IF (v \div (2 ^ b)) % 2 = 1 THEN v - 2 ^ b ELSE v + 2 ^ b

\* the last n cells of the final record of the last listed segment are cut off
Truncate(n) ==
    /\ crashed
    /\ replayOut = None
    /\ damage = None
    /\ ioFailures = 0
    /\ LoadedManifest.segments # << >>
    /\ LET seg == LoadedManifest.segments[Len(LoadedManifest.segments)].name
           ids == segRecs[seg]
       IN  /\ ids # << >>
           /\ WholeRecordsOnly(seg)
           /\ n <= Len(appends[ids[Len(ids)]].rec)
           /\ files' = [files EXCEPT ![seg] = SubSeq(@, 1, Len(@) - n)]
           /\ segRecs' = [segRecs EXCEPT ![seg] = SubSeq(@, 1, Len(@) - 1)]
           /\ damage' = Some([kind |-> "truncate", seg |-> seg, rec |-> Len(ids), n |-> n])
    /\ UNCHANGED << chan, batch, wpc, inner, manifestDisk, acked, crashed, replayOut,
                    appends, written, synced, ioFailures >>

\* bit b of cell c of record r of a listed segment is flipped; c is a cell the
\* CRC check decides on: not the magic, not the length
FlipBit(seg, r, c, b) ==
    /\ crashed
    /\ replayOut = None
    /\ damage = None
    /\ ioFailures = 0
    /\ seg \in ListedSegments
    /\ r <= Len(segRecs[seg])
    /\ WholeRecordsOnly(seg)
    /\ c <= Len(appends[segRecs[seg][r]].rec)
    /\ c \notin {1, HDR_LEN}
    /\ files' = [files EXCEPT ![seg][RecOffset(seg, r) + c] = FlipBitOf(@, b)]
    /\ damage' = Some([kind |-> "flip", seg |-> seg, rec |-> r, n |-> c])
    /\ UNCHANGED << chan, batch, wpc, inner, manifestDisk, acked, crashed, replayOut,
                    appends, written, synced, segRecs, ioFailures >>

(***************************************************************************)
(* PersistentStore (persistent.rs): an InMemoryStore, a WalWriter, a copy  *)
(* of the manifest and the idempotency map.  A call that writes applies    *)
(* itself to the InMemoryStore, takes the wal Mutex and keeps it while its *)
(* record is appended; the model has one such call between its first step  *)
(* and its return at a time.                                               *)
(***************************************************************************)
\* cap on the number of PersistentStore::open calls after a kill
MaxRestarts == 2
\* cap on the number of calls that append a record
MaxCalls == 3
\* cap on the number of snapshot calls
MaxSnapshots == 1

\* PersistentStore::open on an empty data_dir
StoreInit ==
    /\ manifest = inner.manifest
    /\ idem = [k \in NS \X IDEM_KEYS |-> None]
    /\ snapFile = None
    /\ call = None
    /\ stuck = 0
    /\ reqs = << >>
    /\ life = [restarts |-> 0, snaps |-> 0, trimmed |-> FALSE,
               committed |-> [k \in NS \X IDEM_KEYS |-> None],
               issued |-> [k \in STORES \X NS \X IDEM_KEYS |-> None]]

\* the call applied itself to the InMemoryStore and sent its record to the worker
Awaiting(op, args, res) ==
    call' = Some([op |-> op, args |-> args, res |-> res, enq |-> Len(appends) + 1])

\* PersistentStore::put up to the await of the append
PersistentStore_put(ns, req) ==
    /\ call = None
    /\ put(ns, req)
    /\ LET o == Last(commit_log'[ns]).obj
       IN  /\ WalWriter_append(o.commit_seq, now, RecBody_Put(ns, o.id, o.commit_seq))
           /\ Awaiting("put", [ns |-> ns], o)
    /\ life' = [life EXCEPT !.trimmed = FALSE]
    /\ UNCHANGED << ret, manifest, idem, snapFile, stuck, reqs >>

\* PersistentStore::delete: NotFound comes back from the InMemoryStore at once
PersistentStore_delete(ns, id) ==
    /\ call = None
    /\ ~crashed
    /\ delete(ns, id)
    /\ IF existed(ns, id)
       THEN /\ WalWriter_append(0, now, RecBody_Delete(ns, id))
            /\ Awaiting("delete", [ns |-> ns, id |-> id], "Ok")
            /\ life' = [life EXCEPT !.trimmed = FALSE]
            /\ UNCHANGED ret
       ELSE /\ ret' = Returned("delete", [ns |-> ns, id |-> id], "NotFound")
            /\ UNCHANGED << walVars, call, life >>
    /\ UNCHANGED << manifest, idem, snapFile, stuck, reqs >>

\* PersistentStore::lease_acquire: Conflict comes back from the InMemoryStore at once
PersistentStore_lease_acquire(ns, key, owner, ttl_secs) ==
    /\ call = None
    /\ ~crashed
    /\ lease_acquire(ns, key, owner, ttl_secs)
    /\ IF lease_held_by_other(ns, key, owner)
       THEN /\ ret' = Returned("lease_acquire", [ns |-> ns, key |-> key, owner |-> owner],
                               "Conflict")
            /\ UNCHANGED << walVars, call >>
       ELSE /\ WalWriter_append(0, now, RecBody_LeaseAcquire(ns, key, owner, NextSeq(ns),
                                                             ttl_secs))
            /\ Awaiting("lease_acquire", [ns |-> ns, key |-> key, owner |-> owner], "Ok")
            /\ UNCHANGED ret
    /\ UNCHANGED << manifest, idem, snapFile, stuck, reqs, life >>

\* PersistentStore::validate_fence
PersistentStore_validate_fence(ns, resource, fence) ==
    /\ ~crashed
    /\ validate_fence(ns, resource, fence)
    /\ ret' = Returned("validate_fence", [ns |-> ns, resource |-> resource, fence |-> fence],
                       validate_fence_result(ns, resource, fence))
    /\ UNCHANGED << walVars, storeVars >>

\* PersistentStore::idempotency_commit: the record written to the log carries the
\* response and the expiry, and no body_hash
PersistentStore_idempotency_commit(ns, key, body_hash, response, expires_at) ==
    /\ call = None
    /\ idem' = [idem EXCEPT ![ns, key] =
                   Some(IdempotencyRecord(body_hash, response, expires_at))]
    /\ WalWriter_append(0, now, RecBody_Idempotency(ns, key, response, expires_at))
    /\ Awaiting("idempotency_commit",
                [ns |-> ns, key |-> key, body_hash |-> body_hash, response |-> response],
                "Ok")
    /\ life' = [life EXCEPT !.issued["PersistentStore", ns, key] =
                   Some([body_hash |-> body_hash, response |-> response])]
    /\ UNCHANGED << memVars, ret, manifest, snapFile, stuck, reqs >>

idempotency_lookup_result(ns, key, body_hash) == lookup(idem, ns, key, body_hash)

\* PersistentStore::idempotency_lookup
PersistentStore_idempotency_lookup(ns, key, body_hash) ==
    /\ ~crashed
    /\ ret' = Returned("idempotency_lookup",
                       [ns |-> ns, key |-> key, body_hash |-> body_hash],
                       idempotency_lookup_result(ns, key, body_hash))
    /\ UNCHANGED << memVars, walVars, storeVars >>

\* the ack of the awaited append arrives and the wal Mutex is given back.  delete,
\* lease_acquire and idempotency_commit return Ok whatever became of the record.
\* put goes on to
\*     self.manifest.write().last_seq = self.manifest.read().last_seq.max(o.commit_seq)
\* where the read guard of the right-hand side lives to the end of the statement, so
\* that write() waits for a reader of its own thread: the call never returns, and
\* its read guard is never given back.
PersistentStore_return ==
    /\ ~crashed
    /\ call # None
    /\ call[1].enq \in acked
    /\ call' = None
    /\ IF call[1].op = "put"
       THEN /\ stuck' = stuck + 1
            /\ UNCHANGED ret
       ELSE /\ ret' = Returned(call[1].op, call[1].args, call[1].res)
            /\ UNCHANGED stuck
    /\ life' = IF call[1].op = "idempotency_commit"
               THEN [life EXCEPT !.committed[call[1].args.ns, call[1].args.key] =
                        Some([body_hash |-> call[1].args.body_hash,
                              response |-> call[1].args.response])]
               ELSE life
    /\ UNCHANGED << memVars, walVars, manifest, idem, snapFile, reqs >>

\* a set of (ns, id) keys as a sequence, in one order of the many a HashMap iterates in
RECURSIVE KeysInOrder(_)
KeysInOrder(S) ==
    IF S = {} THEN << >>
    ELSE LET k == CHOOSE e \in S : TRUE IN << k >> \o KeysInOrder(S \ {k})

\* InMemoryStore::all_objects: the last version of every version list that has one
all_objects ==
    LET ks == KeysInOrder({k \in DOMAIN data : data[k] # << >>})
    IN  [i \in 1..Len(ks) |-> Last(data[ks[i]])]

\* PersistentStore::snapshot: the current versions go to a file under snapshots/
\* that no code of the store reads again; the copy of the manifest is given the
\* name and the bookmark and is written over manifest.json
PersistentStore_snapshot ==
    /\ ~crashed
    /\ stuck = 0
    /\ LET id == life.snaps + 1
           m == [manifest EXCEPT !.current_snapshot = Some(id),
                                 !.snapshot_bookmark = Some(manifest.last_seq)]
       IN  /\ snapFile' = Some(all_objects)
           /\ manifest' = m
           /\ persist_manifest_at(m)
           /\ life' = [life EXCEPT !.snaps = id]
           /\ ret' = Returned("snapshot", << >>, id)
    /\ UNCHANGED << memVars, chan, batch, wpc, inner, files, acked, crashed, replayOut,
                    appends, written, synced, segRecs, ioFailures, damage, idem, call,
                    stuck, reqs >>

\* the indices of the segments of m with max_seq below the cutoff
BeforeCutoff(m, cutoff) == {i \in 1..Len(m.segments) : m.segments[i].max_seq < cutoff}

\* mutant: the first of the segments below the cutoff is kept
FirstBefore(S) == {i \in S : \A j \in S : i <= j}

\* last_before_idx, as a set: the last of the segments below the cutoff is kept
LastBefore(S) == {i \in S : \A j \in S : j <= i}

RECURSIVE SubSeqAt(_, _, _)
SubSeqAt(seq, keep, i) ==
    IF i > Len(seq) THEN << >>
    ELSE (IF i \in keep THEN << seq[i] >> ELSE << >>) \o SubSeqAt(seq, keep, i + 1)

\* the indices of the segments admin_trim_wal removes
TrimDeleted(m) ==
    LET cutoff == IF m.snapshot_bookmark = None THEN 0 ELSE m.snapshot_bookmark[1]
        S == BeforeCutoff(m, cutoff)
    IN  S \ LastBefore(S)

\* PersistentStore::admin_trim_wal
PersistentStore_admin_trim_wal(snapshot_id) ==
    /\ ~crashed
    /\ stuck = 0
    /\ IF manifest.current_snapshot # Some(snapshot_id)
       THEN /\ ret' = Returned("admin_trim_wal", snapshot_id, "Invalid")
            /\ UNCHANGED << manifest, manifestDisk, files, life >>
       ELSE LET deleted == TrimDeleted(manifest)
                names == {manifest.segments[i].name : i \in deleted}
                m == [manifest EXCEPT !.segments =
                         SubSeqAt(@, (1..Len(@)) \ deleted, 1)]
            IN  /\ files' = [j \in DOMAIN files |-> IF j \in names THEN << >> ELSE files[j]]
                /\ manifest' = m
                /\ persist_manifest_at(m)
                /\ life' = [life EXCEPT !.trimmed = TRUE]
                /\ ret' = Returned("admin_trim_wal", snapshot_id, names)
    /\ UNCHANGED << memVars, chan, batch, wpc, inner, acked, crashed, replayOut, appends,
                    written, synced, segRecs, ioFailures, damage, idem, snapFile, call,
                    stuck, reqs >>

\* the process is killed between two writes of the worker; the calls in progress
\* are gone with it
Kill ==
    /\ Crash(0)
    /\ call' = None
    /\ stuck' = 0
    /\ UNCHANGED reqs
    /\ life' = [life EXCEPT !.trimmed = @ /\ call = None,
                            !.issued = [k \in STORES \X NS \X IDEM_KEYS |-> None]]
    /\ UNCHANGED << memVars, ret, manifest, idem, snapFile >>

\* serde_json::from_value::<Object>(obj): the Put body of the model keeps the id and
\* the commit_seq of the object; its other fields are those of every object the
\* persistent store is given here (no tags, no ttl, written at time 0)
ObjectOfRecord(b) ==
    [id |-> b.id, ns |-> b.ns, tags |-> NoTags, ttl_seconds |-> None, ts |-> 0,
     commit_seq |-> b.commit_seq, json_len |-> PutJsonLen]

\* one turn of the loop of open over the replayed records; st holds data, commit_log,
\* tag_index and max_seq_per_ns
ReplayApply(st, b) ==
    IF b.kind = "Put"
    THEN LET o == ObjectOfRecord(b)
         IN  [data |-> [st.data EXCEPT ![o.ns, o.id] = Append(@, o)],
              commit_log |-> [st.commit_log EXCEPT ![o.ns] = Append(@, PutEvent(o))],
              tag_index |-> TagIndexInsert(st.tag_index, o),
              max_seq_per_ns |-> [st.max_seq_per_ns EXCEPT ![o.ns] = Max(@, o.commit_seq)]]
    ELSE IF b.kind = "Delete"
    THEN [st EXCEPT !.data[b.ns, b.id] = << >>,
                    !.commit_log[b.ns] =
                        Append(@, DeleteEvent(b.ns, b.id, st.max_seq_per_ns[b.ns]))]
    ELSE st

RECURSIVE ReplayAll(_, _)
ReplayAll(st, recs) ==
    IF recs = << >> THEN st ELSE ReplayAll(ReplayApply(st, Head(recs)), Tail(recs))

\* the manifest WalWriter::open ends with
OpenedManifest ==
    LET m == LoadedManifest
        seg_name == IF m.current_segment = 0 THEN new_segment_name(m.segments)
                    ELSE m.current_segment
    IN  [m EXCEPT !.current_segment = seg_name,
                  !.segments = IF @ = << >> THEN << [name |-> seg_name, max_seq |-> 0] >>
                               ELSE @]

\* PersistentStore::open on the data_dir the killed process left: WalWriter::open,
\* replay, and the records applied to a new InMemoryStore.  max_seq_per_ns is
\* computed and dropped; lease and idempotency records are passed over; the
\* snapshot is not read.
PersistentStore_open ==
    /\ crashed
    /\ life.restarts < MaxRestarts
    /\ LET m == OpenedManifest
           cur == m.current_segment
           st == ReplayAll([data |-> [k \in NS \X IDS |-> << >>],
                            commit_log |-> [n \in NS |-> << >>],
                            tag_index |-> [k \in NS \X TAGKEYS \X TAGVALS |-> None],
                            max_seq_per_ns |-> [n \in NS |-> 0]],
                           replay)
       IN  /\ files' = [j \in 1..Max(Len(files), cur) |->
                           IF j <= Len(files) THEN files[j] ELSE << >>]
           /\ segRecs' = [j \in 1..Max(Len(segRecs), cur) |->
                             IF j <= Len(segRecs) THEN segRecs[j] ELSE << >>]
           /\ inner' = [bytes |-> IF cur <= Len(files) THEN Len(files[cur]) ELSE 0,
                        manifest |-> m]
           /\ manifest' = m
           /\ data' = st.data
           /\ commit_log' = st.commit_log
           /\ tag_index' = st.tag_index
           /\ replayOut' = Some(replay)
    /\ commit_seq' = [n \in NS |-> 0]
    /\ leases' = [k \in NS \X KEYS |-> None]
    /\ idem' = [k \in NS \X IDEM_KEYS |-> None]
    /\ buffers' = [n \in NS |-> << >>]
    /\ bufs' = << >>
    /\ watches' = << >>
    /\ dropped' = {}
    /\ inner_idem' = [k \in NS \X IDEM_KEYS |-> None]
    /\ pushed' = << >>
    /\ subFrom' = << >>
    /\ subAt' = << >>
    /\ delivered' = << >>
    /\ sweep' = None
    /\ swept' = {}
    /\ chan' = << >>
    /\ batch' = << >>
    /\ wpc' = [at |-> "recv", i |-> 0]
    /\ crashed' = FALSE
    /\ call' = None
    /\ stuck' = 0
    /\ UNCHANGED reqs
    /\ life' = [life EXCEPT !.restarts = @ + 1, !.trimmed = FALSE]
    /\ ret' = Returned("open", << >>, "Ok")
    /\ UNCHANGED << now, held, manifestDisk, acked, appends, written, synced, ioFailures,
                    damage, snapFile >>

(***************************************************************************)
(* The restore tool (crates/agentstate-cli main.rs).                       *)
(***************************************************************************)
\* one turn of the loop over the replayed records: a Put pushes its obj, a Delete
\* retains the objects of another (ns, id), any other record is passed over
RestoreApply(objs, b) ==
    IF b.kind = "Put" THEN Append(objs, ObjectOfRecord(b))
    ELSE IF b.kind = "Delete"
    THEN SelectSeq(objs, LAMBDA o : ~(o.ns = b.ns /\ o.id = b.id))
    ELSE objs

RECURSIVE RestoreAll(_, _)
RestoreAll(objs, recs) ==
    IF recs = << >> THEN objs ELSE RestoreAll(RestoreApply(objs, Head(recs)), Tail(recs))

\* objs.iter().filter_map(commit_seq).max().unwrap_or(0)
MaxCommitSeq(objs) ==
    IF objs = << >> THEN 0
    ELSE CHOOSE m \in {objs[i].commit_seq : i \in 1..Len(objs)} :
             \A i \in 1..Len(objs) : objs[i].commit_seq <= m

\* Cmd::Restore: the objects dumped and the report written to out
restore(snapshot, recs) ==
    LET objs == RestoreAll(snapshot, recs)
    IN  [dump |-> objs, last_seq |-> MaxCommitSeq(objs), objects |-> Len(objs)]

\* the tool is run on the snapshot last taken and the data_dir of the killed process
Restore ==
    /\ crashed
    /\ snapFile # None
    /\ ret' = Returned("restore", << >>, restore(snapFile[1], replay))
    /\ UNCHANGED << memVars, walVars, storeVars >>

(***************************************************************************)
(* Specifications.                                                         *)
(***************************************************************************)
Init == MemInit /\ WalInit /\ StoreInit

Next ==
    \/ \E ns \in NS, req \in PutRequests : put(ns, req) /\ UNCHANGED << ret, walVars, storeVars >>
    \/ \E ns \in NS, id \in IDS : delete(ns, id) /\ UNCHANGED << ret, walVars, storeVars >>
    \/ \E ns \in NS, f \in FromCommits : subscribe(ns, f) /\ UNCHANGED << ret, walVars, storeVars >>
    \/ \E h \in 1..Len(watches) : try_next(h) /\ UNCHANGED << ret, walVars, storeVars >>

Spec == Init /\ [][Next]_vars

\* the lease calls go to one namespace, and so do the writes that share its
\* counter with the lease tokens
LeaseNs == {"a"}
LeaseIds == {"x"}

NextLease ==
    \/ \E ns \in LeaseNs, id \in LeaseIds :
          /\ put(ns, [id |-> Some(id), tags |-> NoTags, ttl_seconds |-> None])
          /\ ret' = Returned("put", << >>, "Ok")
          /\ UNCHANGED << walVars, storeVars >>
    \/ \E ns \in LeaseNs, id \in LeaseIds :
          /\ delete(ns, id)
          /\ ret' = Returned("delete", << >>, delete_result(ns, id))
          /\ UNCHANGED << walVars, storeVars >>
    \/ \E ns \in LeaseNs, key \in KEYS, owner \in OWNERS, ttl \in TTLS :
          /\ lease_acquire(ns, key, owner, ttl)
          /\ ret' = Returned("lease_acquire", [ns |-> ns, key |-> key, owner |-> owner],
                             lease_acquire_result(ns, key, owner))
          /\ UNCHANGED << walVars, storeVars >>
    \/ \E ns \in LeaseNs, key \in KEYS, owner \in OWNERS, token \in TOKENS, ttl \in TTLS :
          /\ lease_renew(ns, key, owner, token, ttl)
          /\ ret' = Returned("lease_renew", << >>,
                             lease_renew_result(ns, key, owner, token))
          /\ UNCHANGED << walVars, storeVars >>
    \/ \E ns \in LeaseNs, key \in KEYS, owner \in OWNERS, token \in TOKENS :
          /\ lease_release(ns, key, owner, token)
          /\ ret' = Returned("lease_release", << >>,
                             lease_release_result(ns, key, owner, token))
          /\ UNCHANGED << walVars, storeVars >>
    \/ \E ns \in LeaseNs, key \in KEYS, fence \in TOKENS :
          /\ validate_fence(ns, key, fence)
          /\ ret' = Returned("validate_fence", [ns |-> ns, resource |-> key, fence |-> fence],
                             validate_fence_result(ns, key, fence))
          /\ UNCHANGED << walVars, storeVars >>
    \/ Tick /\ UNCHANGED << walVars, storeVars >>

SpecLease == Init /\ [][NextLease]_vars

\* the index calls go to one namespace; an object carries one of two tag maps
\* without ttl, or the first of them with a ttl of zero seconds
IndexNs == {"a"}
IndexPutRequests ==
    { [id |-> Some(i), tags |-> t, ttl_seconds |-> None] :
          i \in IDS, t \in {{<< "k", "v" >>}, {<< "k", "w" >>}} }
    \cup { [id |-> Some(i), tags |-> {<< "k", "v" >>}, ttl_seconds |-> Some(0)] : i \in IDS }

NextIndex ==
    \/ \E ns \in IndexNs, req \in IndexPutRequests :
          put(ns, req) /\ UNCHANGED << ret, walVars, storeVars >>
    \/ \E ns \in IndexNs, id \in IDS :
          delete(ns, id) /\ UNCHANGED << ret, walVars, storeVars >>
    \/ \E ns \in IndexNs, tf \in TagFilters :
          query(ns, tf) /\ UNCHANGED << ret, walVars, storeVars >>
    \/ sweep_begin /\ UNCHANGED << ret, walVars, storeVars >>
    \/ \E k \in NS \X IDS : sweep_scan(k) /\ UNCHANGED << ret, walVars, storeVars >>
    \/ sweep_cleanup /\ UNCHANGED << ret, walVars, storeVars >>
    \/ /\ sweep_return
       /\ ret' = Returned("sweep_expired", << >>, sweep[1].removed)
       /\ UNCHANGED << walVars, storeVars >>
    \/ now < MaxTime - 1 /\ Tick /\ UNCHANGED << walVars, storeVars >>

SpecIndex == Init /\ [][NextIndex]_vars

\* the calls whose results are recorded go to one namespace; an object carries
\* no tags and no ttl or a ttl of zero seconds
GetNs == {"a"}
GetTtls == {None, Some(0)}
GetPutRequests ==
    [id : {None} \cup {Some(i) : i \in IDS}, tags : {NoTags}, ttl_seconds : GetTtls]

NextGet ==
    \/ \E ns \in GetNs, req \in GetPutRequests :
          /\ put(ns, req)
          /\ ret' = Returned("put", [ns |-> ns], Last(commit_log'[ns]).obj)
          /\ UNCHANGED << walVars, storeVars >>
    \/ \E ns \in GetNs, id \in IDS :
          /\ delete(ns, id)
          /\ ret' = Returned("delete", [ns |-> ns, id |-> id], delete_result(ns, id))
          /\ UNCHANGED << walVars, storeVars >>
    \/ \E ns \in GetNs, id \in IDS, opts \in GetOptions :
          /\ get(ns, id, opts)
          /\ ret' = Returned("get", [ns |-> ns, id |-> id, opts |-> opts],
                             get_result(ns, id, opts))
          /\ UNCHANGED << walVars, storeVars >>
    \/ Tick /\ UNCHANGED << walVars, storeVars >>

SpecGet == Init /\ [][NextGet]_vars

\* puts, deletes and a subscriber with the result of each call recorded
NextDelete ==
    \/ \E ns \in NS, req \in PutRequests :
          /\ put(ns, req)
          /\ ret' = Returned("put", [ns |-> ns], Last(commit_log'[ns]).obj)
          /\ UNCHANGED << walVars, storeVars >>
    \/ \E ns \in NS, id \in IDS :
          /\ delete(ns, id)
          /\ ret' = Returned("delete", [ns |-> ns, id |-> id], delete_result(ns, id))
          /\ UNCHANGED << walVars, storeVars >>
    \/ \E ns \in NS :
          /\ subscribe(ns, None)
          /\ ret' = Returned("subscribe", [ns |-> ns], None)
          /\ UNCHANGED << walVars, storeVars >>
    \/ \E h \in 1..Len(watches) :
          /\ try_next(h)
          /\ ret' = Returned("try_next", << >>, None)
          /\ UNCHANGED << walVars, storeVars >>

SpecDelete == Init /\ [][NextDelete]_vars

\* the sweeper, one subscriber and puts to one namespace of objects with one tag
\* and no ttl or a ttl of zero seconds
SweepNs == {"a"}
SweepPutRequests ==
    [id : {Some(i) : i \in IDS}, tags : {{<< "k", "v" >>}}, ttl_seconds : {None, Some(0)}]

NextSweep ==
    \/ \E ns \in SweepNs, req \in SweepPutRequests :
          put(ns, req) /\ UNCHANGED << ret, walVars, storeVars >>
    \/ \E ns \in SweepNs :
          watches = << >> /\ subscribe(ns, None) /\ UNCHANGED << ret, walVars, storeVars >>
    \/ sweep_begin /\ UNCHANGED << ret, walVars, storeVars >>
    \/ \E k \in NS \X IDS : sweep_scan(k) /\ UNCHANGED << ret, walVars, storeVars >>
    \/ sweep_cleanup /\ UNCHANGED << ret, walVars, storeVars >>
    \/ /\ sweep_return
       /\ ret' = Returned("sweep_expired", << >>, sweep[1].removed)
       /\ UNCHANGED << walVars, storeVars >>
    \/ now < MaxTime - 1 /\ Tick /\ UNCHANGED << walVars, storeVars >>

SpecSweep == Init /\ [][NextSweep]_vars

\* a persistent store with one namespace through kills and restarts: puts and
\* deletes, snapshot and admin_trim_wal, the fsync worker without I/O errors.  The
\* wal Mutex leaves the worker one record at a time, so its batch is closed by the
\* deadline.  The process is killed while no call is appending.
PersistNs == {"a"}
PersistPutRequests == [id : {Some(i) : i \in IDS}, tags : {NoTags}, ttl_seconds : {None}]

NextPersist ==
    \/ \E ns \in PersistNs, req \in PersistPutRequests :
          Len(appends) < MaxCalls /\ PersistentStore_put(ns, req)
    \/ \E ns \in PersistNs, id \in IDS :
          Len(appends) < MaxCalls /\ PersistentStore_delete(ns, id)
    \/ WorkerRecv /\ UNCHANGED << memVars, ret, storeVars >>
    \/ WorkerDeadline /\ UNCHANGED << memVars, ret, storeVars >>
    \/ /\ wpc.at = "write"
       /\ WorkerWrite(Len(appends[batch[wpc.i]].rec))
       /\ UNCHANGED << memVars, ret, storeVars >>
    \/ WorkerSync(TRUE) /\ UNCHANGED << memVars, ret, storeVars >>
    \/ WorkerPersist /\ UNCHANGED << memVars, ret, storeVars >>
    \/ WorkerRotate /\ UNCHANGED << memVars, ret, storeVars >>
    \/ WorkerAck /\ UNCHANGED << memVars, ret, storeVars >>
    \/ PersistentStore_return
    \/ life.snaps < MaxSnapshots /\ PersistentStore_snapshot
    \/ \E sid \in 1..MaxSnapshots : PersistentStore_admin_trim_wal(sid)
    \/ call = None /\ Kill
    \/ PersistentStore_open

SpecPersist == Init /\ [][NextPersist]_vars

\* snapshot and admin_trim_wal on a persistent store whose log grows by the puts to
\* one id, through kills and restarts
TrimPutRequests == [id : {Some("x")}, tags : {NoTags}, ttl_seconds : {None}]

NextTrim ==
    \/ \E ns \in PersistNs, req \in TrimPutRequests :
          Len(appends) < MaxCalls /\ PersistentStore_put(ns, req)
    \/ WorkerRecv /\ UNCHANGED << memVars, ret, storeVars >>
    \/ WorkerDeadline /\ UNCHANGED << memVars, ret, storeVars >>
    \/ /\ wpc.at = "write"
       /\ WorkerWrite(Len(appends[batch[wpc.i]].rec))
       /\ UNCHANGED << memVars, ret, storeVars >>
    \/ WorkerSync(TRUE) /\ UNCHANGED << memVars, ret, storeVars >>
    \/ WorkerPersist /\ UNCHANGED << memVars, ret, storeVars >>
    \/ WorkerRotate /\ UNCHANGED << memVars, ret, storeVars >>
    \/ WorkerAck /\ UNCHANGED << memVars, ret, storeVars >>
    \/ PersistentStore_return
    \/ life.snaps < MaxSnapshots /\ PersistentStore_snapshot
    \/ \E sid \in 1..MaxSnapshots : PersistentStore_admin_trim_wal(sid)
    \/ call = None /\ Kill
    \/ PersistentStore_open

SpecTrim == Init /\ [][NextTrim]_vars

\* the restore tool run on what a persistent store left behind: puts and deletes,
\* a snapshot, the kill of the process
NextRestore ==
    \/ \E ns \in PersistNs, req \in PersistPutRequests :
          Len(appends) < MaxCalls /\ PersistentStore_put(ns, req)
    \/ \E ns \in PersistNs, id \in IDS :
          Len(appends) < MaxCalls /\ PersistentStore_delete(ns, id)
    \/ WorkerRecv /\ UNCHANGED << memVars, ret, storeVars >>
    \/ WorkerDeadline /\ UNCHANGED << memVars, ret, storeVars >>
    \/ /\ wpc.at = "write"
       /\ WorkerWrite(Len(appends[batch[wpc.i]].rec))
       /\ UNCHANGED << memVars, ret, storeVars >>
    \/ WorkerSync(TRUE) /\ UNCHANGED << memVars, ret, storeVars >>
    \/ WorkerPersist /\ UNCHANGED << memVars, ret, storeVars >>
    \/ WorkerRotate /\ UNCHANGED << memVars, ret, storeVars >>
    \/ WorkerAck /\ UNCHANGED << memVars, ret, storeVars >>
    \/ PersistentStore_return
    \/ life.snaps < MaxSnapshots /\ PersistentStore_snapshot
    \/ call = None /\ Kill
    \/ Restore

SpecRestore == Init /\ [][NextRestore]_vars

\* puts and deletes through a persistent store whose fsync worker meets a
\* write_all or a sync_data that fails; the process stays up
NextWrite ==
    \/ \E ns \in PersistNs, req \in PersistPutRequests :
          Len(appends) < MaxCalls /\ PersistentStore_put(ns, req)
    \/ \E ns \in PersistNs, id \in IDS :
          Len(appends) < MaxCalls /\ PersistentStore_delete(ns, id)
    \/ WorkerRecv /\ UNCHANGED << memVars, ret, storeVars >>
    \/ WorkerDeadline /\ UNCHANGED << memVars, ret, storeVars >>
    \/ \E k \in 0..MaxRecLen : WorkerWrite(k) /\ UNCHANGED << memVars, ret, storeVars >>
    \/ \E ok \in BOOLEAN : WorkerSync(ok) /\ UNCHANGED << memVars, ret, storeVars >>
    \/ WorkerPersist /\ UNCHANGED << memVars, ret, storeVars >>
    \/ WorkerRotate /\ UNCHANGED << memVars, ret, storeVars >>
    \/ WorkerAck /\ UNCHANGED << memVars, ret, storeVars >>
    \/ PersistentStore_return

SpecWrite == Init /\ [][NextWrite]_vars

\* leases and idempotency records of one namespace through kills and restarts;
\* the fsync worker meets no I/O error and the process is killed while no call is
\* appending
NextDurable ==
    \/ \E ns \in PersistNs, key \in KEYS, owner \in OWNERS, ttl \in TTLS :
          Len(appends) < MaxCalls /\ PersistentStore_lease_acquire(ns, key, owner, ttl)
    \/ \E ns \in PersistNs, key \in KEYS, fence \in TOKENS :
          PersistentStore_validate_fence(ns, key, fence)
    \/ \E ns \in PersistNs, key \in IDEM_KEYS, h \in HASHES, r \in RESPONSES :
          Len(appends) < MaxCalls /\ PersistentStore_idempotency_commit(ns, key, h, r, now + 1)
    \/ \E ns \in PersistNs, key \in IDEM_KEYS, h \in HASHES :
          PersistentStore_idempotency_lookup(ns, key, h)
    \/ WorkerRecv /\ UNCHANGED << memVars, ret, storeVars >>
    \/ WorkerDeadline /\ UNCHANGED << memVars, ret, storeVars >>
    \/ /\ wpc.at = "write"
       /\ WorkerWrite(Len(appends[batch[wpc.i]].rec))
       /\ UNCHANGED << memVars, ret, storeVars >>
    \/ WorkerSync(TRUE) /\ UNCHANGED << memVars, ret, storeVars >>
    \/ WorkerPersist /\ UNCHANGED << memVars, ret, storeVars >>
    \/ WorkerRotate /\ UNCHANGED << memVars, ret, storeVars >>
    \/ WorkerAck /\ UNCHANGED << memVars, ret, storeVars >>
    \/ PersistentStore_return
    \/ call = None /\ Kill
    \/ PersistentStore_open

SpecDurable == Init /\ [][NextDurable]_vars

\* idempotency records of one namespace in an InMemoryStore used on its own and in
\* a PersistentStore whose fsync worker meets no I/O error, while time passes
InMemoryStore_idempotency_commit(ns, key, body_hash, response, expires_at) ==
    /\ idempotency_commit(ns, key, body_hash, response, expires_at)
    /\ ret' = Returned("InMemoryStore::idempotency_commit",
                       [ns |-> ns, key |-> key, body_hash |-> body_hash,
                        response |-> response], "Ok")
    /\ life' = [life EXCEPT !.issued["InMemoryStore", ns, key] =
                   Some([body_hash |-> body_hash, response |-> response])]
    /\ UNCHANGED << walVars, manifest, idem, snapFile, call, stuck, reqs >>

InMemoryStore_idempotency_lookup(ns, key, body_hash) ==
    /\ idempotency_lookup(ns, key, body_hash)
    /\ ret' = Returned("InMemoryStore::idempotency_lookup",
                       [ns |-> ns, key |-> key, body_hash |-> body_hash],
                       lookup(inner_idem, ns, key, body_hash))
    /\ UNCHANGED << walVars, storeVars >>

NextIdem ==
    \/ \E ns \in PersistNs, key \in IDEM_KEYS, h \in HASHES, r \in RESPONSES :
          InMemoryStore_idempotency_commit(ns, key, h, r, now + 1)
    \/ \E ns \in PersistNs, key \in IDEM_KEYS, h \in HASHES :
          InMemoryStore_idempotency_lookup(ns, key, h)
    \/ \E ns \in PersistNs, key \in IDEM_KEYS, h \in HASHES, r \in RESPONSES :
          Len(appends) < MaxAppends /\ PersistentStore_idempotency_commit(ns, key, h, r, now + 1)
    \/ \E ns \in PersistNs, key \in IDEM_KEYS, h \in HASHES :
          PersistentStore_idempotency_lookup(ns, key, h)
    \/ now < MaxTime - 1 /\ Tick /\ UNCHANGED << walVars, storeVars >>
    \/ WorkerRecv /\ UNCHANGED << memVars, ret, storeVars >>
    \/ WorkerDeadline /\ UNCHANGED << memVars, ret, storeVars >>
    \/ /\ wpc.at = "write"
       /\ WorkerWrite(Len(appends[batch[wpc.i]].rec))
       /\ UNCHANGED << memVars, ret, storeVars >>
    \/ WorkerSync(TRUE) /\ UNCHANGED << memVars, ret, storeVars >>
    \/ WorkerPersist /\ UNCHANGED << memVars, ret, storeVars >>
    \/ WorkerRotate /\ UNCHANGED << memVars, ret, storeVars >>
    \/ WorkerAck /\ UNCHANGED << memVars, ret, storeVars >>
    \/ PersistentStore_return

SpecIdem == Init /\ [][NextIdem]_vars

\* subscribers that come and go while puts and deletes are made
NextDrop ==
    \/ \E ns \in NS, req \in PutRequests : put(ns, req) /\ UNCHANGED << ret, walVars, storeVars >>
    \/ \E ns \in NS, id \in IDS : delete(ns, id) /\ UNCHANGED << ret, walVars, storeVars >>
    \/ \E ns \in NS, f \in FromCommits : subscribe(ns, f) /\ UNCHANGED << ret, walVars, storeVars >>
    \/ \E h \in 1..Len(watches) :
          h \notin dropped /\ try_next(h) /\ UNCHANGED << ret, walVars, storeVars >>
    \/ \E h \in 1..Len(watches) : MemWatch_drop(h) /\ UNCHANGED << ret, walVars, storeVars >>

SpecDrop == Init /\ [][NextDrop]_vars

\* leases of one namespace acquired, renewed and released with every owner and
\* token, while time passes
NextRenew ==
    \/ \E ns \in LeaseNs, key \in KEYS, owner \in OWNERS, ttl \in TTLS :
          /\ lease_acquire(ns, key, owner, ttl)
          /\ ret' = Returned("lease_acquire", [ns |-> ns, key |-> key, owner |-> owner],
                             lease_acquire_result(ns, key, owner))
          /\ UNCHANGED << walVars, storeVars >>
    \/ \E ns \in LeaseNs, key \in KEYS, owner \in OWNERS, token \in TOKENS, ttl \in TTLS :
          /\ lease_renew(ns, key, owner, token, ttl)
          /\ ret' = Returned("lease_renew",
                             [ns |-> ns, key |-> key, owner |-> owner, token |-> token],
                             lease_renew_result(ns, key, owner, token))
          /\ UNCHANGED << walVars, storeVars >>
    \/ \E ns \in LeaseNs, key \in KEYS, owner \in OWNERS, token \in TOKENS :
          /\ lease_release(ns, key, owner, token)
          /\ ret' = Returned("lease_release",
                             [ns |-> ns, key |-> key, owner |-> owner, token |-> token],
                             lease_release_result(ns, key, owner, token))
          /\ UNCHANGED << walVars, storeVars >>
    \/ Tick /\ UNCHANGED << walVars, storeVars >>

SpecRenew == Init /\ [][NextRenew]_vars

NextWal ==
    \/ \E req \in AppendRequests :
          append(req.seq, now, req.body) /\ UNCHANGED << memVars, ret, storeVars >>
    \/ WorkerRecv /\ UNCHANGED << memVars, ret, storeVars >>
    \/ WorkerCollect /\ UNCHANGED << memVars, ret, storeVars >>
    \/ WorkerDeadline /\ UNCHANGED << memVars, ret, storeVars >>
    \/ \E k \in 0..MaxRecLen : WorkerWrite(k) /\ UNCHANGED << memVars, ret, storeVars >>
    \/ \E ok \in BOOLEAN : WorkerSync(ok) /\ UNCHANGED << memVars, ret, storeVars >>
    \/ WorkerPersist /\ UNCHANGED << memVars, ret, storeVars >>
    \/ WorkerRotate /\ UNCHANGED << memVars, ret, storeVars >>
    \/ WorkerAck /\ UNCHANGED << memVars, ret, storeVars >>
    \/ \E k \in 0..(MaxRecLen - 1) : Crash(k) /\ UNCHANGED << memVars, ret, storeVars >>
    \/ \E n \in 1..MaxRecLen : Truncate(n) /\ UNCHANGED << memVars, ret, storeVars >>
    \/ \E seg \in 1..Len(files), r \in 1..MaxAppends, c \in 1..MaxRecLen, b \in 0..MaxFlipBit :
          FlipBit(seg, r, c, b) /\ UNCHANGED << memVars, ret, storeVars >>
    \/ Replay /\ UNCHANGED << memVars, ret, storeVars >>

SpecWal == Init /\ [][NextWal]_vars

(***************************************************************************)
(* Properties of the commit log and the watch fan-out, checked under Spec. *)
(***************************************************************************)
EventsOf(ns, k) == SelectSeq(commit_log[ns], LAMBDA ev : EventSeq(ev) > k)

\* the position of an event of the log
PosInLog(ns, ev) == CHOOSE p \in 1..Len(commit_log[ns]) : commit_log[ns][p] = ev

\* C1: with puts and deletes only, from an empty store, the i-th event appended
\* to commit_log[ns] carries commit_seq = i: the sequences are 1, 2, 3, ... with
\* none reused and none skipped.
C1_MonotonicCommits ==
    \A ns \in NS : \A i \in 1..Len(commit_log[ns]) :
        EventSeq(commit_log[ns][i]) = i

C1_Witness ==
    \E ns \in NS :
        /\ Len(commit_log[ns]) = 3
        /\ commit_log[ns][1].kind = "Put"
        /\ commit_log[ns][2].kind = "Delete"
        /\ commit_log[ns][3].kind = "Put"

\* C6 as claimed: a handle subscribed with any from_commit = Some(k) whose
\* buffer has not overflowed holds exactly the events of commit_log[ns] with
\* commit_seq > k, in log order and each once, and try_next has returned exactly
\* the first cursor of them.
C6_ResumeExact ==
    \A h \in 1..Len(watches) :
        (subFrom[h] # None /\ ~bufs[watches[h].buf].overflow) =>
            LET want == EventsOf(watches[h].ns, subFrom[h][1])
                b == bufs[watches[h].buf]
            IN  /\ b.events = want
                /\ delivered[h] = SubSeq(want, 1, b.cursor)

\* C6 as amended: the same for a from_commit = Some(k) with k no greater than
\* commit_seq[ns] at the time of the subscribe (a resume token the namespace has
\* issued): no event twice (seed and fan-out), none missing.
C6_ResumeExactIssued ==
    \A h \in 1..Len(watches) :
        (/\ subFrom[h] # None
         /\ subFrom[h][1] <= subAt[h]
         /\ ~bufs[watches[h].buf].overflow) =>
            LET want == EventsOf(watches[h].ns, subFrom[h][1])
                b == bufs[watches[h].buf]
            IN  /\ b.events = want
                /\ delivered[h] = SubSeq(want, 1, b.cursor)

\* a handle resumed from 1 that was primed with event 2, received event 3 from
\* the fan-out and has returned both
C6_Witness ==
    \E h \in 1..Len(watches) :
        /\ subFrom[h] = Some(1)
        /\ subAt[h] = 2
        /\ pushed[h] = 2
        /\ Len(delivered[h]) = 2
        /\ EventSeq(delivered[h][1]) = 2
        /\ EventSeq(delivered[h][2]) = 3
        /\ ~bufs[watches[h].buf].overflow

\* C7: no buffer ever stores more than WATCH_BUFFER_EVENTS events; a buffer that
\* was pushed more than WATCH_BUFFER_EVENTS events, or that dropped any event,
\* has its overflow flag set, and with the flag set overflow_meta() is
\* Some((last_commit, retry)) with the retry between the configured bounds.
C7_BoundedBuffer ==
    \A h \in 1..Len(watches) :
        LET b == bufs[watches[h].buf]
        IN  /\ Len(b.events) <= WATCH_BUFFER_EVENTS
            /\ (pushed[h] > WATCH_BUFFER_EVENTS /\ b.cursor = 0) => b.overflow
            /\ pushed[h] > Len(b.events) => b.overflow
            /\ b.overflow =>
                  /\ overflow_meta(h) = Some(<< last_commit(h), RetryAfterMs >>)
                  /\ WATCH_RETRY_MIN_MS <= RetryAfterMs
                  /\ RetryAfterMs <= WATCH_RETRY_MAX_MS

C7_Witness ==
    \E h \in 1..Len(watches) :
        /\ pushed[h] > WATCH_BUFFER_EVENTS
        /\ bufs[watches[h].buf].cursor = 0
        /\ Len(bufs[watches[h].buf].events) = WATCH_BUFFER_EVENTS
        /\ overflow_meta(h) # None

\* C8: the events try_next has returned on a handle have strictly increasing
\* commit_seq and stand in the same relative order as in commit_log[ns].
C8_DeliveryOrder ==
    \A h \in 1..Len(watches) :
        \A i \in 1..Len(delivered[h]) :
            /\ \E p \in 1..Len(commit_log[watches[h].ns]) :
                   commit_log[watches[h].ns][p] = delivered[h][i]
            /\ \A j \in (i + 1)..Len(delivered[h]) :
                   /\ EventSeq(delivered[h][i]) < EventSeq(delivered[h][j])
                   /\ PosInLog(watches[h].ns, delivered[h][i])
                        < PosInLog(watches[h].ns, delivered[h][j])

C8_Witness ==
    \E h \in 1..Len(watches) :
        /\ subFrom[h] = None
        /\ Len(delivered[h]) = 2
        /\ delivered[h][1].kind = "Put"
        /\ delivered[h][2].kind = "Delete"

(***************************************************************************)
(* Properties of the lease table, checked under SpecLease.                 *)
(***************************************************************************)
HeldExclusive ==
    \A k \in NS \X KEYS : \A g1, g2 \in held[k] :
        (g1.expires > now /\ g2.expires > now) => g1.owner = g2.owner

AcquireRefused ==
    ret'.op = "lease_acquire" =>
        LET a == ret'.args
            cur == leases[a.ns, a.key]
        IN  (cur # None /\ cur[1].expires > now /\ cur[1].owner # a.owner)
                => (ret'.res = "Conflict" /\ leases' = leases /\ held' = held)

\* C9: while a lease granted to one owner is neither expired nor released,
\* an acquire of the same (ns, key) by another owner returns Conflict and
\* leaves the lease in place, and no two owners ever hold unexpired grants
\* of the same (ns, key).
C9_LeaseExclusivity == []HeldExclusive /\ [][AcquireRefused]_vars

C9_Witness ==
    /\ ret.op = "lease_acquire"
    /\ ret.res = "Conflict"
    /\ leases[ret.args.ns, ret.args.key] # None
    /\ leases[ret.args.ns, ret.args.key][1].owner # ret.args.owner
    /\ leases[ret.args.ns, ret.args.key][1].expires > now
    /\ leases[ret.args.ns, ret.args.key][1] \in held[ret.args.ns, ret.args.key]

\* C10: validate_fence(ns, r, f) returns Ok exactly when leases[ns, r]
\* exists, its token is f and its expiry is strictly later than now; it
\* returns Conflict otherwise, and the call changes nothing in the store.
C10_ValidateFence ==
    [][ret'.op = "validate_fence" =>
          LET a == ret'.args
              cur == leases[a.ns, a.resource]
          IN  /\ ret'.res = "Ok" <=>
                   (cur # None /\ cur[1].token = a.fence /\ cur[1].expires > now)
              /\ ret'.res # "Ok" => ret'.res = "Conflict"
              /\ UNCHANGED << data, commit_seq, commit_log, watchVars, leaseVars, now >>
      ]_vars

C10_Witness ==
    /\ ret.op = "validate_fence"
    /\ ret.res = "Conflict"
    /\ leases[ret.args.ns, ret.args.resource] # None
    /\ leases[ret.args.ns, ret.args.resource][1].token = ret.args.fence
    /\ leases[ret.args.ns, ret.args.resource][1].expires = now

(***************************************************************************)
(* Properties of the tag index and of query, checked under SpecIndex.      *)
(***************************************************************************)
\* the current version of (ns, id) exists and carries tag k = v
CarriesTag(ns, id, k, v) ==
    data[ns, id] # << >> /\ << k, v >> \in Last(data[ns, id]).tags

InTagIndex(ns, k, v, id) ==
    tag_index[ns, k, v] # None /\ id \in tag_index[ns, k, v][1]

\* C12: whenever no sweep_expired call is in progress, an id is a member of
\* tag_index[(ns, k, v)] if and only if (ns, id) exists and its current (last)
\* version carries tag k = v.
C12_IndexConsistency ==
    sweep = None =>
        \A ns \in NS, k \in TAGKEYS, v \in TAGVALS, id \in IDS :
            InTagIndex(ns, k, v, id) <=> CarriesTag(ns, id, k, v)

\* the non-expired current versions of ns whose tags contain every pair of F
Matching(ns, F) ==
    { Last(data[ns, id]) :
        id \in {i \in IDS : /\ data[ns, i] # << >>
                            /\ ~is_expired(Last(data[ns, i]), now)
                            /\ F \subseteq Last(data[ns, i]).tags} }

\* C13: whenever no sweep_expired call is in progress, query(ns, tag_filter = F)
\* without vector clause and limit returns exactly the non-expired current
\* versions of ns whose tags contain every (k, v) pair of F.
C13_QueryExact ==
    sweep = None =>
        \A ns \in NS, F \in TagFilters : query_result(ns, F) = Matching(ns, F)

(***************************************************************************)
(* Properties of delete, checked under SpecDelete.                         *)
(***************************************************************************)
\* buffer i is registered for ns
RegisteredFor(ns, i) == \E j \in 1..Len(buffers[ns]) : buffers[ns][j] = i

\* the caps leave room in buffer b for one more Delete event
HasRoomForDelete(b) ==
    /\ b.bytes + DELETE_EVENT_BYTES <= WATCH_BUFFER_BYTES
    /\ Len(b.events) + 1 <= WATCH_BUFFER_EVENTS

\* what a delete does to the table, the counter and the log
DeleteCore(a) ==
    IF data[a.ns, a.id] # << >>
    THEN /\ ret'.res = "Ok"
         /\ data' = [data EXCEPT ![a.ns, a.id] = << >>]
         /\ commit_seq' = [commit_seq EXCEPT ![a.ns] = @ + 1]
         /\ commit_log' = [commit_log EXCEPT ![a.ns] =
                               Append(@, DeleteEvent(a.ns, a.id, commit_seq[a.ns] + 1))]
    ELSE /\ ret'.res = "NotFound"
         /\ UNCHANGED << data, commit_seq, commit_log, buffers, bufs >>

CurrentExpired(versions, t) ==
    /\ versions # << >>
    /\ versions[Len(versions)].ttl_seconds # None
    /\ versions[Len(versions)].ts + versions[Len(versions)].ttl_seconds[1] < t

\* C16: no step of sweep_expired changes commit_seq, commit_log or a watch
\* buffer; an entry it removes is one whose current version is expired, and no
\* other entry changes; when it returns, no entry whose current version was
\* expired at the time of the call is left, and the count returned is the number
\* of entries it removed.
C16_SweepFrame ==
    [][sweep' # sweep =>
          /\ UNCHANGED << commit_seq, commit_log, buffers, bufs >>
          /\ \A k \in DOMAIN data :
                data'[k] # data[k] => (data'[k] = << >> /\ CurrentExpired(data[k], now))
          /\ (sweep # None /\ sweep' = None) =>
                /\ ret'.op = "sweep_expired"
                /\ ret'.res = Cardinality(swept)
                /\ \A k \in DOMAIN data : ~CurrentExpired(data[k], sweep[1].now)
      ]_vars

\* a sweep has returned 1: the expired object is gone, another object is still
\* there, and the subscriber's buffer still holds the Put event of the removed one
C16_Witness ==
    /\ ret.op = "sweep_expired"
    /\ ret.res = 1
    /\ sweep = None
    /\ \E k1, k2 \in DOMAIN data :
          /\ data[k1] = << >>
          /\ data[k2] # << >>
          /\ \E h \in 1..Len(watches) :
                LET ev == bufs[watches[h].buf].events
                IN  /\ \E i \in 1..Len(ev) :
                                        /\ ev[i].kind = "Put"
                                        /\ << ev[i].obj.ns, ev[i].obj.id >> = k1
                                        /\ ev[i].obj.ttl_seconds = Some(0)

(***************************************************************************)
(* Properties of the persistent store across restarts, checked under       *)
(* SpecPersist.                                                            *)
(***************************************************************************)
\* the current version of every (ns, id) that has one
CurrentVersions == {Last(data[k]) : k \in {e \in DOMAIN data : data[e] # << >>}}

\* C11: when the process is killed after admin_trim_wal succeeded for the snapshot
\* taken, with no write begun since and no I/O error, PersistentStore::open builds
\* the set of current versions the killed process had.
C11_RestartAfterTrim ==
    [][(crashed /\ ~crashed' /\ life.trimmed /\ ioFailures = 0)
          => CurrentVersions' = CurrentVersions]_vars

\* the commit_seq of the Put records of the namespace among the replayed records
ReplayedSeqs(ns) ==
    {replayOut[1][j].commit_seq :
        j \in {i \in 1..Len(replayOut[1]) :
                  replayOut[1][i].kind = "Put" /\ replayOut[1][i].ns = ns}}

\* C17: a put on a store that open built from a log is given a commit_seq above
\* every commit_seq the replayed Put records of its namespace carry.
C17_NoSeqReuse ==
    [][(call = None /\ call' # None /\ call'[1].op = "put" /\ replayOut # None)
          => \A q \in ReplayedSeqs(call'[1].args.ns) : call'[1].res.commit_seq > q]_vars

(***************************************************************************)
(* Properties of the calls that write through the log, checked under       *)
(* SpecWrite.                                                              *)
(***************************************************************************)
\* C18: when the write_all of a call's record or the sync_data of its batch failed,
\* the step that ends the call's wait for the append returns an Internal error:
\* the call does not return Ok.
C18_AppendErrorFailsCall ==
    [][(call # None /\ call' = None /\ ~crashed'
        /\ call[1].enq \notin (written \cap synced))
          => (UNCHANGED ret \/ ret'.res = "Internal")]_vars

(***************************************************************************)
(* Properties of leases and idempotency records across restarts, checked   *)
(* under SpecDurable.                                                      *)
(***************************************************************************)
\* the LeaseAcquire record of the lease was appended and acknowledged
LeaseAcked(ns, key, g) ==
    \E i \in acked :
        /\ appends[i].body.kind = "LeaseAcquire"
        /\ appends[i].body.ns = ns
        /\ appends[i].body.key = key
        /\ appends[i].body.owner = g.owner
        /\ appends[i].body.token = g.token

\* C19: in a running store, whether restarted or not, a lease that was granted and
\* acknowledged in the log, not released and not expired, validates with its token
\* and refuses every other owner.
C19_LeasesSurviveRestart ==
    ~crashed =>
        \A ns \in NS, key \in KEYS :
            \A g \in held[ns, key] :
                (g.expires > now /\ LeaseAcked(ns, key, g)) =>
                    /\ validate_fence_result(ns, key, g.token) = "Ok"
                    /\ \A o \in OWNERS \ {g.owner} :
                          lease_acquire_result(ns, key, o) = "Conflict"

\* C20: in a running store with no call in progress, whether restarted or not,
\* idempotency_lookup with the body_hash of the commit last returned for (ns, key)
\* gives the record with the response of that commit, and with another body_hash
\* Conflict.
C20_IdempotencySurvivesRestart ==
    (~crashed /\ call = None) =>
        \A k \in NS \X IDEM_KEYS :
            life.committed[k] # None =>
                LET c == life.committed[k][1]
                    found == idempotency_lookup_result(k[1], k[2], c.body_hash)
                IN  /\ found.kind = "Ok"
                    /\ found.rec # None
                    /\ found.rec[1].response = c.response
                    /\ \A h \in HASHES \ {c.body_hash} :
                          idempotency_lookup_result(k[1], k[2], h).kind = "Conflict"

(***************************************************************************)
(* Properties of get, checked under SpecGet.                               *)
(***************************************************************************)
\* the positions of the versions a get with these options may return: not
\* expired now and, with at_ts set, not later than at_ts
Qualifying(versions, opts) ==
    { i \in 1..Len(versions) :
        /\ versions[i].ttl_seconds # None =>
               versions[i].ts + versions[i].ttl_seconds[1] >= now
        /\ opts.at_ts # None => versions[i].ts <= opts.at_ts[1] }

GetReturnsNewest ==
    ret'.op = "get" =>
        LET a == ret'.args
            versions == data[a.ns, a.id]
            Q == Qualifying(versions, a.opts)
        IN  IF Q = {} THEN ret'.res = None
            ELSE \E i \in Q : /\ ret'.res = Some(versions[i])
                               /\ \A j \in Q : versions[j].commit_seq <= versions[i].commit_seq

PutThenGet ==
    ret.op = "put" =>
        get_result(ret.args.ns, ret.res.id, [at_ts |-> None]) = Some(ret.res)

\* C14: get(ns, id, at_ts) returns the version with the highest commit_seq among
\* the versions of (ns, id) that are not expired now and, with at_ts set, have
\* ts <= at_ts, and NotFound when there is no such version; right after a put
\* has returned an object, get of its id returns that object.
C14_GetNewestQualifying == []PutThenGet /\ [][GetReturnsNewest]_vars

\* a get that passed over the newest version, which is expired, and returned
\* the one before it
C14_Witness ==
    /\ ret.op = "get"
    /\ ret.args.opts.at_ts = None
    /\ Len(data[ret.args.ns, ret.args.id]) = 2
    /\ ret.res = Some(data[ret.args.ns, ret.args.id][1])
    /\ Last(data[ret.args.ns, ret.args.id]).ttl_seconds = Some(0)

(***************************************************************************)
(* Properties of the write-ahead log, checked under SpecWal.               *)
(***************************************************************************)
Bodies(ids) == [j \in 1..Len(ids) |-> appends[ids[j]].body]

\* the bodies of the whole records of the listed segments, in the order listed
RECURSIVE WholeBodies(_)
WholeBodies(segs) ==
    IF segs = << >> THEN << >>
    ELSE Bodies(segRecs[Head(segs).name]) \o WholeBodies(Tail(segs))

\* the same, with the records of segment seg from the r-th on left out
RECURSIVE WholeBodiesBefore(_, _, _)
WholeBodiesBefore(segs, seg, r) ==
    IF segs = << >> THEN << >>
    ELSE (IF Head(segs).name = seg
          THEN Bodies(SubSeq(segRecs[seg], 1, r - 1))
          ELSE Bodies(segRecs[Head(segs).name]))
         \o WholeBodiesBefore(Tail(segs), seg, r)

\* C2: an append is acknowledged only after its record's bytes were written
\* to the segment and the data fsync of its batch returned: no acknowledged
\* append is unwritten or unsynced.
C2_AckAfterWriteAndSync == \A id \in acked : id \in written /\ id \in synced

\* C3: after a crash that follows appends which were all acknowledged (no
\* damage to the files), replay returns exactly the bodies of those appends,
\* each once, in the order enqueued.
C3_ReplayReturnsAcked ==
    (replayOut # None /\ damage = None /\ acked = 1..Len(appends))
        => replayOut[1] = Bodies([j \in 1..Len(appends) |-> j])

\* C4: when the final record of the last listed segment is cut short (by
\* the kill during its write, or by a truncation of the file afterwards),
\* replay returns exactly the records that precede it, in order.
C4_TornTailDiscarded ==
    (replayOut # None /\ ioFailures = 0 /\ manifestDisk # None /\ damage # None
       /\ damage[1].kind \in {"torn", "truncate"})
        => replayOut[1] = WholeBodies(manifestDisk[1].segments)

C4_Witness ==
    /\ replayOut # None
    /\ damage # None
    /\ damage[1].kind = "truncate"
    /\ damage[1].seg = 2
    /\ damage[1].n = 1
    /\ Len(segRecs[1]) = 1
    /\ replayOut[1] = Bodies(segRecs[1])

\* C5: when record i of a segment fails its CRC check, replay returns from
\* that segment exactly the records before i, none from i on, and the other
\* segments' records as they are.
C5_CrcStopsSegment ==
    (replayOut # None /\ damage # None /\ damage[1].kind = "flip")
        => /\ ReplayFile(files[damage[1].seg])
                = Bodies(SubSeq(segRecs[damage[1].seg], 1, damage[1].rec - 1))
           /\ replayOut[1]
                = WholeBodiesBefore(manifestDisk[1].segments, damage[1].seg, damage[1].rec)

C5_Witness ==
    /\ replayOut # None
    /\ damage # None
    /\ damage[1].kind = "flip"
    /\ damage[1].rec = 1
    /\ Len(segRecs[damage[1].seg]) = 2
    /\ replayOut[1] = << >>

(***************************************************************************)
(* Idempotency lookup                                                      *)
(***************************************************************************)
\* what a lookup of (ns, key, h) owes its caller, from the commits made on the store
LookupOwed(store, ns, key, h) ==
    LET c == life.issued[store, ns, key] IN
    IF c = None THEN [kind |-> "Ok", some |-> FALSE, response |-> 0]
    ELSE IF c[1].body_hash = h
    THEN [kind |-> "Ok", some |-> TRUE, response |-> c[1].response]
    ELSE [kind |-> "Conflict", some |-> FALSE, response |-> 0]

LookupAgrees(res, owed, h) ==
    /\ res.kind = owed.kind
    /\ (res.rec # None) = owed.some
    /\ owed.some => res.rec[1].response = owed.response /\ res.rec[1].body_hash = h

LookupOps == {"InMemoryStore::idempotency_lookup", "idempotency_lookup"}

\* C21: on the in-memory and on the persistent store, idempotency_lookup(ns, key, h)
\* returns None when no record was committed under (ns, key), the record with the
\* response last committed when its body_hash is h, and Conflict when its body_hash
\* differs; and a lookup changes nothing in either store.
C21_IdempotencyLookup ==
    /\ [](\A ns \in NS, key \in IDEM_KEYS, h \in HASHES :
            /\ LookupAgrees(lookup(inner_idem, ns, key, h),
                            LookupOwed("InMemoryStore", ns, key, h), h)
            /\ LookupAgrees(idempotency_lookup_result(ns, key, h),
                            LookupOwed("PersistentStore", ns, key, h), h))
    /\ [][(ret' # ret /\ ret'.op \in LookupOps) =>
            /\ UNCHANGED << memVars, walVars, storeVars >>
            /\ LookupAgrees(ret'.res,
                            LookupOwed(IF ret'.op = "idempotency_lookup"
                                       THEN "PersistentStore" ELSE "InMemoryStore",
                                       ret'.args.ns, ret'.args.key, ret'.args.body_hash),
                            ret'.args.body_hash)]_vars

\* a lookup on the persistent store returned the record of the second response
\* while the in-memory store holds a record of another body_hash
C21_Witness ==
    /\ ret.op = "idempotency_lookup"
    /\ ret.res.rec # None
    /\ ret.res.rec[1].response = 2
    /\ inner_idem["a", "q"] # None
    /\ inner_idem["a", "q"][1].body_hash # ret.args.body_hash

(***************************************************************************)
(* Watch handles that were dropped                                         *)
(***************************************************************************)
LiveHandles(ns) == {h \in 1..Len(watches) : watches[h].ns = ns /\ h \notin dropped}

\* C22: once a watch handle is dropped its buffer is no longer registered in
\* buffers[ns]: every registered buffer belongs to a live handle, so that the
\* buffers registered for ns are as many as its live handles, and backlog_map counts
\* nothing for a namespace without live handles.
C22_DroppedBufferUnregistered ==
    \A ns \in NS :
        /\ \A i \in 1..Len(buffers[ns]) :
              \E h \in LiveHandles(ns) : watches[h].buf = buffers[ns][i]
        /\ Len(buffers[ns]) = Cardinality(LiveHandles(ns))
        /\ LiveHandles(ns) = {} => backlog_map[ns] = 0

(***************************************************************************)
(* Version lists, checked under SpecPersist.                               *)
(***************************************************************************)
\* C23: in every state, the one PersistentStore::open builds among them, the version
\* list of every (ns, id) is sorted by commit_seq strictly ascending, so that its
\* last version is the one with the highest commit_seq.
C23_VersionsAscending ==
    \A k \in DOMAIN data :
        \A i, j \in 1..Len(data[k]) :
            i < j => data[k][i].commit_seq < data[k][j].commit_seq

(***************************************************************************)
(* The counter shared by commits and lease tokens, checked under SpecLease.*)
(***************************************************************************)
\* C24: no value of a namespace's counter is wasted: a call that fails, such as a
\* lease_acquire that returns Conflict, leaves the counter as it was, and a call
\* that succeeds moves it by one at most.
C24_NoCounterWaste ==
    [][/\ ret'.res # "Ok" => commit_seq' = commit_seq
       /\ \A ns \in NS : commit_seq'[ns] \in {commit_seq[ns], commit_seq[ns] + 1}]_vars

\* the commit_seq of the events of ns and the tokens of the leases standing or held in ns
AssignedIn(ns) ==
    {EventSeq(commit_log[ns][i]) : i \in 1..Len(commit_log[ns])}
    \cup {leases[k][1].token : k \in {e \in DOMAIN leases : e[1] = ns /\ leases[e] # None}}
    \cup UNION {{g.token : g \in held[k]} : k \in {e \in DOMAIN held : e[1] = ns}}

\* C25: within one lifetime the token of every successful lease_acquire in ns is
\* strictly greater than every token minted and every commit_seq assigned in ns
\* before it: no value handed out lies above the counter, the counter never goes
\* back, and the token lies above the counter the call found and above all that was
\* handed out.
C25_TokensAboveAll ==
    /\ [](\A ns \in NS : \A v \in AssignedIn(ns) : v <= commit_seq[ns])
    /\ [][/\ \A ns \in NS : commit_seq'[ns] >= commit_seq[ns]
           /\ (ret'.op = "lease_acquire" /\ ret'.res = "Ok") =>
                 LET t == leases'[ret'.args.ns, ret'.args.key][1].token
                 IN  /\ t > commit_seq[ret'.args.ns]
                     /\ \A v \in AssignedIn(ret'.args.ns) : t > v]_vars

\* a lease is acquired with token 3 after a commit and another token in its namespace
C25_Witness ==
    /\ ret.op = "lease_acquire"
    /\ ret.res = "Ok"
    /\ leases[ret.args.ns, ret.args.key][1].token = 3
    /\ commit_log[ret.args.ns] # << >>
    /\ \E g \in held[ret.args.ns, ret.args.key] : g.token < 3

(***************************************************************************)
(* lease_renew and lease_release, checked under SpecRenew.                 *)
(***************************************************************************)
\* the lease table but for the entry of (ns, key)
LeasesBut(t, ns, key) == [k \in DOMAIN t \ {<< ns, key >>} |-> t[k]]

\* C26: lease_renew and lease_release act on an exact (owner, token) match only.
\* With no lease on (ns, key) they return NotFound, with another owner or token
\* Conflict, and the lease table stays as it was.  A matching renew keeps owner and
\* token, changes no other entry and does not bump the counter; a matching release
\* removes the entry and no other.
C26_RenewReleaseExactMatch ==
    [][(ret'.op \in {"lease_renew", "lease_release"}) =>
          LET a == ret'.args
              cur == leases[a.ns, a.key]
          IN  /\ commit_seq' = commit_seq
              /\ IF cur = None
                 THEN ret'.res = "NotFound" /\ leases' = leases
                 ELSE IF cur[1].owner # a.owner \/ cur[1].token # a.token
                 THEN ret'.res = "Conflict" /\ leases' = leases
                 ELSE /\ ret'.res = "Ok"
                      /\ LeasesBut(leases', a.ns, a.key) = LeasesBut(leases, a.ns, a.key)
                      /\ IF ret'.op = "lease_release"
                         THEN leases'[a.ns, a.key] = None
                         ELSE /\ leases'[a.ns, a.key] # None
                              /\ leases'[a.ns, a.key][1].owner = cur[1].owner
                              /\ leases'[a.ns, a.key][1].token = cur[1].token]_vars

\* a renew with the owner of the lease and another token was refused, on a lease
\* that expires after time 1
C26_Witness ==
    /\ ret.op = "lease_renew"
    /\ ret.res = "Conflict"
    /\ leases[ret.args.ns, ret.args.key] # None
    /\ leases[ret.args.ns, ret.args.key][1].owner = ret.args.owner
    /\ leases[ret.args.ns, ret.args.key][1].token # ret.args.token
    /\ leases[ret.args.ns, ret.args.key][1].expires > 1

(***************************************************************************)
(* admin_trim_wal, checked under SpecTrim.                                 *)
(***************************************************************************)
\* the step is one of admin_trim_wal: the call left its result, and nothing that
\* every other call or worker step changes was changed
TrimStep ==
    /\ ret'.op = "admin_trim_wal"
    /\ UNCHANGED << memVars, chan, batch, wpc, inner, acked, crashed, replayOut, appends,
                    written, synced, segRecs, ioFailures, damage, idem, snapFile, call,
                    stuck, reqs >>

SegNames(m) == {m.segments[i].name : i \in 1..Len(m.segments)}

\* C27: admin_trim_wal with an id that is not the manifest's current_snapshot
\* returns Invalid, deletes no segment file and leaves the manifest as it was.  With
\* the current_snapshot it removes from the manifest, and deletes, exactly the
\* segments with max_seq below snapshot_bookmark but for the last of them, keeps the
\* others in their order, and removes neither a segment with max_seq at or above the
\* bookmark nor the current segment.
C27_TrimExact ==
    [][TrimStep =>
          IF manifest.current_snapshot # Some(ret'.args)
          THEN /\ ret'.res = "Invalid"
               /\ UNCHANGED << manifest, manifestDisk, files >>
          ELSE LET segs == manifest.segments
                   cutoff == IF manifest.snapshot_bookmark = None THEN 0
                             ELSE manifest.snapshot_bookmark[1]
                   below == {i \in 1..Len(segs) : segs[i].max_seq < cutoff}
                   gone == {i \in below : \E j \in below : j > i}
                   Kept(g) == \A i \in gone : segs[i] # g
               IN  /\ manifest'.segments = SelectSeq(segs, Kept)
                   /\ ret'.res = {segs[i].name : i \in gone}
                   /\ SegNames(manifest) \ SegNames(manifest') = ret'.res
                   /\ \A i \in 1..Len(segs) :
                         segs[i].max_seq >= cutoff => segs[i].name \in SegNames(manifest')
                   /\ manifest.current_segment \notin ret'.res
                   /\ inner.manifest.current_segment \notin ret'.res
                   /\ \A n \in DOMAIN files :
                         files'[n] = IF n \in ret'.res THEN << >> ELSE files[n]
                   /\ manifest' = [manifest EXCEPT !.segments = manifest'.segments]]_vars

\* admin_trim_wal removed a segment and kept the last of those below the bookmark
C27_Witness ==
    /\ life.trimmed
    /\ ret.op = "admin_trim_wal"
    /\ ret.res # {}
    /\ \E i \in 1..Len(manifest.segments) :
          manifest.segments[i].max_seq < manifest.snapshot_bookmark[1]

(***************************************************************************)
(* The order of the records in the log, checked under SpecWal.             *)
(***************************************************************************)
RECURSIVE Flatten(_)
Flatten(ss) == IF ss = << >> THEN << >> ELSE Head(ss) \o Flatten(Tail(ss))

\* the appends whose records stand whole in the segment files, segment after segment
AllSegRecs == Flatten(segRecs)

\* C28: the records stand in the segment files, and are acknowledged, in the order
\* in which append enqueued them, whatever the batches and across a rotation: along
\* the segments the records are in enqueue order, an acknowledged append has every
\* earlier append acknowledged, and as long as no write failed and the files were
\* not damaged, the files read one after the other are the records of the first
\* appends, in enqueue order.
C28_WalOrder ==
    /\ \A i, j \in 1..Len(AllSegRecs) : i < j => AllSegRecs[i] < AllSegRecs[j]
    /\ \A i \in acked : \A j \in 1..i : j \in acked
    /\ acked \subseteq written \cup {i \in 1..Len(appends) : ioFailures > 0}
    /\ (ioFailures = 0 /\ damage = None) =>
          /\ AllSegRecs = [i \in 1..Len(AllSegRecs) |-> i]
          /\ Flatten(files) = Flatten([i \in 1..Len(AllSegRecs) |-> appends[i].rec])

\* two appends that went through one batch were acknowledged, and a rotation
\* followed
C28_Witness ==
    /\ acked = {1, 2}
    /\ \E n \in 1..Len(segRecs) : segRecs[n] = << 1, 2 >>
    /\ Len(files) >= 2
    /\ ioFailures = 0

\* two appends stand in two segments
C28_WitnessRotation ==
    /\ Len(segRecs) >= 2
    /\ segRecs[1] = << 1 >>
    /\ segRecs[2] = << 2 >>

(***************************************************************************)
(* The manifest of the fsync worker, checked under SpecWal.                *)
(***************************************************************************)
\* the names go up by one, the current segment is the last listed, and max_seq does
\* not go down along the list
WellFormed(m) ==
    /\ m.segments # << >>
    /\ \A i \in 2..Len(m.segments) : m.segments[i].name = m.segments[i - 1].name + 1
    /\ m.current_segment = Last(m.segments).name
    /\ \A i \in 2..Len(m.segments) : m.segments[i].max_seq >= m.segments[i - 1].max_seq

C30_RestoreLatestOnly ==
    ret.op = "restore" =>
        LET objs == ret.res.dump
        IN  /\ \A i, j \in 1..Len(objs) :
                  (objs[i].ns = objs[j].ns /\ objs[i].id = objs[j].id) => i = j
            /\ ret.res.objects = Len(objs)
            /\ \A i \in 1..Len(objs) : objs[i].commit_seq <= ret.res.last_seq
            /\ objs # << >> => \E i \in 1..Len(objs) : objs[i].commit_seq = ret.res.last_seq

(***************************************************************************)
(* Resuming a watch, checked under Spec.                                   *)
(***************************************************************************)
\* the commit the handle was subscribed from: from_commit, or with none the counter
\* of the namespace at the subscribe
ResumedFrom(h) == IF subFrom[h] = None THEN subAt[h] ELSE subFrom[h][1]

\* C31: resuming from last_commit loses no event: for every watch handle, every
\* event of its namespace with from_commit < commit_seq <= last_commit() was
\* returned by try_next on that handle.
C31_NoGapBelowLastCommit ==
    \A h \in 1..Len(watches) :
        \A i \in 1..Len(commit_log[watches[h].ns]) :
            LET ev == commit_log[watches[h].ns][i]
            IN  (ResumedFrom(h) < EventSeq(ev) /\ EventSeq(ev) <= last_commit(h))
                    => \E j \in 1..Len(delivered[h]) : delivered[h][j] = ev

(***************************************************************************)
(* The two writers of manifest.json, checked under SpecPersist.            *)
(***************************************************************************)
\* the segments whose file stands and holds an acknowledged record
AckedSegments == {n \in 1..Len(segRecs) : files[n] # << >> /\ Range(segRecs[n]) \cap acked # {}}

\* C32: no manifest update is lost between the fsync worker and snapshot or
\* admin_trim_wal: whenever the process is up and the worker is between two
\* batches, manifest.json carries the current_snapshot of the latest snapshot(),
\* names the current_segment of the worker and lists every segment that stands and
\* holds acknowledged records.
C32_NoLostManifestUpdate ==
    (manifestDisk # None /\ ~crashed /\ wpc.at = "recv") =>
        /\ life.snaps > 0 => manifestDisk[1].current_snapshot = Some(life.snaps)
        /\ manifestDisk[1].current_segment = inner.manifest.current_segment
        /\ AckedSegments \subseteq SegNames(manifestDisk[1])

(***************************************************************************)
(* last_seq and max_seq after a batch, checked under SpecWal.              *)
(***************************************************************************)
\* the manifest of the worker covers the sequence number of every acknowledged record
AckedCovered ==
    \A id \in acked :
        /\ appends[id].seq <= inner.manifest.last_seq
        /\ appends[id].seq <= Last(inner.manifest.segments).max_seq

\* C33: once the worker has acknowledged a batch, the last_seq of the manifest and
\* the max_seq of the current segment are at least the seq of every record of the
\* batch, whatever its position in the batch, a batch whose last record carries
\* seq 0 included; and last_seq never decreases.
C33_ManifestCoversBatch ==
    /\ [](~crashed => AckedCovered)
    /\ [][inner'.manifest.last_seq >= inner.manifest.last_seq]_vars

(***************************************************************************)
(* Termination of PersistentStore::put, checked under SpecPutLive: the     *)
(* steps of NextWrite with a worker and a runtime that keep running.       *)
(***************************************************************************)
\* one step of the fsync worker task
WorkerStep ==
    /\ \/ WorkerRecv
       \/ WorkerDeadline
       \/ \E k \in 0..MaxRecLen : WorkerWrite(k)
       \/ \E ok \in BOOLEAN : WorkerSync(ok)
       \/ WorkerPersist
       \/ WorkerRotate
       \/ WorkerAck
    /\ UNCHANGED << memVars, ret, storeVars >>

\* the worker task is spawned on the runtime and the caller of append is woken by
\* its ack: neither waits forever while it can run
SpecPutLive ==
    Init /\ [][NextWrite]_vars /\ WF_vars(WorkerStep) /\ WF_vars(PersistentStore_return)

\* the put in progress has had its record acknowledged by the worker
PutAcked == call # None /\ call[1].op = "put" /\ call[1].enq \in acked

\* C34: PersistentStore::put terminates once the worker has acknowledged its
\* record: the update of the last_seq of the manifest that follows the ack never
\* blocks for ever, and the put returns the object to its caller.
C34_PutTerminates == PutAcked ~> (ret.op = "put")

(***************************************************************************)
(* put_objects, the HTTP handler of the server, over an InMemoryStore: the *)
(* handlers of two requests run as two tasks and take the lock of the      *)
(* store once in each call they make.  The capability, rate, region and    *)
(* size checks that come first are left out.                               *)
(***************************************************************************)
MaxRequests == 2

HandlerNs == "a"

\* the bodies of the requests
HandlerBodies == {[id |-> Some(i), tags |-> NoTags, ttl_seconds |-> None] : i \in IDS}

\* the tokens a request presents: the first token of the namespace
HandlerFences == {1}

\* the headers of a request: If-Resource, If-Fence and Idempotency-Key, each absent or present
HandlerHeaders ==
    { hd \in [resource : {None} \cup {Some(k) : k \in KEYS},
              fence : {None} \cup {Some(f) : f \in HandlerFences},
              key : {None} \cup {Some(k) : k \in IDEM_KEYS}] :
          hd.resource = None => hd.fence = None }

\* blake3_hex(serde_json::to_vec(&req)): two bodies, two hashes
blake3_hex(body) == IF body.id = Some("x") THEN "h1" ELSE "h2"

\* the handler returns its response
Respond(h, status, body) ==
    /\ reqs' = [reqs EXCEPT ![h].at = "done", ![h].status = status, ![h].response = body]
    /\ ret' = Returned("put_objects", h, status)

\* a request arrives and its handler starts
put_objects_begin(headers, body) ==
    /\ Len(reqs) < MaxRequests
    /\ reqs' = Append(reqs, [headers |-> headers, body |-> body, at |-> "fence",
                             obj |-> None, found |-> "none", fenced |-> TRUE,
                             status |-> 0, response |-> None])
    /\ ret' = Returned("put_objects_begin", Len(reqs) + 1, "Ok")
    /\ UNCHANGED memVars

\* "Optional lease fencing": validate_fence when If-Resource is there
put_objects_fence(h) ==
    /\ reqs[h].at = "fence"
    /\ LET hd == reqs[h].headers
       IN  IF hd.resource = None
           THEN reqs' = [reqs EXCEPT ![h].at = "idem"] /\ UNCHANGED ret
           ELSE IF hd.fence = None
           THEN Respond(h, 409, "missing fence")
           ELSE IF validate_fence_result(HandlerNs, hd.resource[1], hd.fence[1]) # "Ok"
           THEN Respond(h, 409, "fence mismatch")
           ELSE reqs' = [reqs EXCEPT ![h].at = "idem"] /\ UNCHANGED ret
    /\ UNCHANGED memVars

\* "Idempotency key support": only Ok(Some(rec)) of idempotency_lookup ends the
\* request; Ok(None) and Err(Conflict) both go on to the put
put_objects_lookup(h) ==
    /\ reqs[h].at = "idem"
    /\ LET hd == reqs[h].headers
       IN  IF hd.key = None
           THEN reqs' = [reqs EXCEPT ![h].at = "put"] /\ UNCHANGED ret
           ELSE LET r == lookup(inner_idem, HandlerNs, hd.key[1], blake3_hex(reqs[h].body))
                IN  IF r.kind = "Ok" /\ r.rec # None
                    THEN /\ reqs' = [reqs EXCEPT ![h].at = "done", ![h].status = 200,
                                                 ![h].response = Some(r.rec[1].response),
                                                 ![h].found = "hit"]
                         /\ ret' = Returned("put_objects", h, 200)
                    ELSE /\ reqs' = [reqs EXCEPT ![h].at = "put",
                                        ![h].found = IF r.kind = "Conflict" THEN "conflict"
                                                     ELSE "none"]
                         /\ UNCHANGED ret
    /\ UNCHANGED memVars

\* app.store.put(&ns, req): without an Idempotency-Key the object is the response
put_objects_put(h) ==
    /\ reqs[h].at = "put"
    /\ put(HandlerNs, reqs[h].body)
    /\ LET hd == reqs[h].headers
           o == Last(commit_log'[HandlerNs]).obj
           ok == hd.resource = None \/ fence_valid(HandlerNs, hd.resource[1], hd.fence[1])
       IN  IF hd.key = None
           THEN /\ reqs' = [reqs EXCEPT ![h].at = "done", ![h].status = 200,
                                        ![h].response = Some(o), ![h].obj = Some(o),
                                        ![h].fenced = ok]
                /\ ret' = Returned("put_objects", h, 200)
           ELSE /\ reqs' = [reqs EXCEPT ![h].at = "commit", ![h].obj = Some(o),
                                        ![h].fenced = ok]
                /\ UNCHANGED ret

\* idempotency_commit of the object put, its result dropped, then the response
put_objects_commit(h) ==
    /\ reqs[h].at = "commit"
    /\ idempotency_commit(HandlerNs, reqs[h].headers.key[1], blake3_hex(reqs[h].body),
                          reqs[h].obj[1], now + MaxTime)
    /\ Respond(h, 200, reqs[h].obj)

NextHandler ==
    \/ \E hd \in HandlerHeaders, body \in HandlerBodies :
          /\ put_objects_begin(hd, body)
          /\ UNCHANGED << walVars, manifest, idem, snapFile, call, stuck, life >>
    \/ \E h \in 1..Len(reqs) :
          put_objects_fence(h) /\ UNCHANGED << walVars, manifest, idem, snapFile, call, stuck, life >>
    \/ \E h \in 1..Len(reqs) :
          put_objects_lookup(h) /\ UNCHANGED << walVars, manifest, idem, snapFile, call, stuck, life >>
    \/ \E h \in 1..Len(reqs) :
          put_objects_put(h) /\ UNCHANGED << walVars, manifest, idem, snapFile, call, stuck, life >>
    \/ \E h \in 1..Len(reqs) :
          put_objects_commit(h) /\ UNCHANGED << walVars, manifest, idem, snapFile, call, stuck, life >>
    \/ \E key \in KEYS, owner \in OWNERS, ttl \in TTLS \ {0} :
          /\ lease_acquire(HandlerNs, key, owner, ttl)
          /\ ret' = Returned("lease_acquire", [ns |-> HandlerNs, key |-> key, owner |-> owner],
                             lease_acquire_result(HandlerNs, key, owner))
          /\ UNCHANGED << walVars, storeVars >>
    \/ Tick /\ UNCHANGED << walVars, storeVars >>

SpecHandler == Init /\ [][NextHandler]_vars

\* C35: a put that presents a resource and a fence is applied only if, at the
\* moment it is applied, the lease of the resource still carries that token and has
\* not expired: no interleaving between the check of the fence and the put lets a
\* stale write through.
C35_NoStaleFencedWrite ==
    \A h \in 1..Len(reqs) : reqs[h].obj # None => reqs[h].fenced

\* the requests that carry the Idempotency-Key k and whose put was applied
AppliedWithKey(k) == {h \in 1..Len(reqs) : reqs[h].headers.key = Some(k) /\ reqs[h].obj # None}

\* C36: whatever the interleaving of the puts that carry one (ns, Idempotency-Key),
\* at most one of them is applied; a repeat with the same body is answered with the
\* cached response and a repeat with another body with Conflict, neither with a new
\* commit.
C36_AtMostOnePerKey ==
    /\ \A k \in IDEM_KEYS : Cardinality(AppliedWithKey(k)) <= 1
    /\ \A h \in 1..Len(reqs) :
          /\ reqs[h].found = "hit" => reqs[h].obj = None
          /\ (reqs[h].found = "conflict" /\ reqs[h].at = "done") =>
                (reqs[h].status = 409 /\ reqs[h].obj = None)

(***************************************************************************)
(* sweep_expired against concurrent writers, checked under SpecIndex.      *)
(***************************************************************************)
\* C37: sweep_expired is atomic with respect to concurrent writers: once a sweep
\* and a put to the same (ns, id) have both completed, every tag of the current
\* version has the id in tag_index; the cleanup of an expired version never
\* removes the index entries of a version put after the expired one was removed.
C37_SweepAtomic ==
    sweep = None =>
        \A ns \in NS, id \in IDS, k \in TAGKEYS, v \in TAGVALS :
            CarriesTag(ns, id, k, v) => InTagIndex(ns, k, v, id)

(***************************************************************************)
(* A subscriber that keeps up, checked under SpecDrain: a write is         *)
(* committed only when every buffer has been read to its end.              *)
(***************************************************************************)
\* every event pushed to a buffer has been taken with try_next
AllDrained == \A i \in 1..Len(bufs) : bufs[i].cursor = Len(bufs[i].events)

NextDrain ==
    \/ \E ns \in NS, req \in PutRequests :
          AllDrained /\ put(ns, req) /\ UNCHANGED << ret, walVars, storeVars >>
    \/ \E ns \in NS, id \in IDS :
          AllDrained /\ delete(ns, id) /\ UNCHANGED << ret, walVars, storeVars >>
    \/ \E ns \in NS : subscribe(ns, None) /\ UNCHANGED << ret, walVars, storeVars >>
    \/ \E h \in 1..Len(watches) : try_next(h) /\ UNCHANGED << ret, walVars, storeVars >>

SpecDrain == Init /\ [][NextDrain]_vars

\* C38: a subscriber that takes every event with try_next before the next event
\* is committed never has overflow set, however many events are committed.
C38_DrainedNeverOverflows == \A i \in 1..Len(bufs) : ~bufs[i].overflow

(***************************************************************************)
(* AgentStateGrpc::watch and a consumer that follows the overflow          *)
(* protocol, checked under SpecWatch: the streams of one consumer on one   *)
(* namespace, one after the other.  The stream in progress is the last     *)
(* handle of watches; a stream that has ended has dropped its handle.      *)
(***************************************************************************)
WatchNs == "a"

\* the streams the consumer opens: one more than the events that can be committed,
\* which is enough for a consumer that gains one event per stream
MaxSessions == MaxCommits + 1

\* the stream in progress, 0 when there is none
Current == IF Len(watches) > 0 /\ Len(watches) \notin dropped THEN Len(watches) ELSE 0

\* the from_commit of the next WatchRequest: 0 at first, then the last_commit the
\* ended stream reported
NextFromCommit == IF watches = << >> THEN 0 ELSE last_commit(Len(watches))

\* watch up to the stream: subscribe(WatchFilter { ns }, Some(req.from_commit))
watch_subscribe ==
    /\ Current = 0
    /\ Len(watches) < MaxSessions
    /\ InMemoryStore_subscribe(WatchNs, Some(NextFromCommit))
    /\ ret' = Returned("watch", << NextFromCommit >>, "Ok")

\* one turn of the loop with overflow set: the stream ends with RESOURCE_EXHAUSTED
\* and the handle goes with it
watch_overflow ==
    /\ Current # 0
    /\ overflow_meta(Current) # None
    /\ MemWatch_drop(Current)
    /\ ret' = Returned("watch", overflow_meta(Current)[1], "RESOURCE_EXHAUSTED")

\* one turn of the loop without overflow: the event try_next returns is sent
watch_next ==
    /\ Current # 0
    /\ overflow_meta(Current) = None
    /\ try_next(Current)
    /\ ret' = Returned("watch", << Current >>, "event")

\* one step of the consumer and of the streams that serve it
ConsumerStep ==
    (watch_subscribe \/ watch_overflow \/ watch_next) /\ UNCHANGED << walVars, storeVars >>

NextWatch ==
    \/ \E id \in IDS :
          /\ put(WatchNs, [id |-> Some(id), tags |-> NoTags, ttl_seconds |-> None])
          /\ UNCHANGED << ret, walVars, storeVars >>
    \/ \E id \in IDS : delete(WatchNs, id) /\ UNCHANGED << ret, walVars, storeVars >>
    \/ watch_subscribe /\ UNCHANGED << walVars, storeVars >>
    \/ watch_overflow /\ UNCHANGED << walVars, storeVars >>
    \/ watch_next /\ UNCHANGED << walVars, storeVars >>

\* the streams and the consumer keep running; nothing obliges a write to happen
SpecWatch == Init /\ [][NextWatch]_vars /\ WF_vars(ConsumerStep)

\* every event committed to the namespace has been sent on one of the streams
AllReceived ==
    \A i \in 1..Len(commit_log[WatchNs]) :
        \E h \in 1..Len(delivered) : \E j \in 1..Len(delivered[h]) :
            delivered[h][j] = commit_log[WatchNs][i]

\* a stream has ended on overflow without having sent an event, while events lie
\* beyond the from_commit it was opened with
StuckStream(h) ==
    /\ h \in dropped
    /\ delivered[h] = << >>
    /\ Backlog(WatchNs, subFrom[h]) # << >>

\* C39: the overflow protocol makes progress: a consumer that runs the watch loop
\* (overflow_meta first, else try_next), ends on overflow and subscribes again with
\* from_commit = last_commit receives every event in the end, once the writes have
\* stopped; and a subscription whose backlog exceeds the cap of the buffer does not
\* leave the consumer subscribing again and again from the same from_commit.
C39_OverflowProgress ==
    /\ (Bumps = MaxCommits) ~> AllReceived
    /\ [](\A h \in 1..Len(watches) : ~StuckStream(h))

====
